---- MODULE Spec2Model ----
(***************************************************************************)
(* Task orchestration and inter-agent communication fabric of              *)
(* ai-news-collector-mcp: TaskQueue, TaskScheduler, TaskRouter,            *)
(* LoadBalancer, ServiceRegistry, and the circuit breaker and rate limiter *)
(* of EnhancedCommunicationProtocol.                                       *)
(*                                                                         *)
(* Time is a discrete clock `now` (one unit stands for any fixed number of *)
(* milliseconds); a Date field that is undefined holds Undef.  Task ids    *)
(* (uuid v4 in the source) are the index of the task in `tasks`, so the    *)
(* order of the ids is the order of creation (created_at is non-decreasing *)
(* in the id).  The fields created_at, updated_at and assigned_at are      *)
(* written but never read by a decision of the code modelled here and are  *)
(* not carried; data, tags and metadata are opaque payload.                *)
(***************************************************************************)
EXTENDS Integers, Sequences, FiniteSets, TLC

\* ------------------------------------------------------------------ bounds
MaxTasks == 2
MaxTime == 3
MaxRetries == 2
MaxConc == 2
MaxTimeout == 1
FailureThreshold == 2
RecoveryTimeout == 1
MaxFailures == 3
MaxSuccesses == 3
MaxInflight == 1
MaxBatch == 2
MaxRequests == 2
TimeWindow == 2
MaxAdmitted == 3
HeartbeatTimeout == 1
MaxLoad == 1
MaxCandidates == 3
MaxRoute == 2
ReplayWindow == 1
BatchLimit == 2
CacheTimeout == 1
MaxProbes == 2
MaxActive == 2

\* ------------------------------------------------------- program constants
LOW == 1
NORMAL == 2
HIGH == 3
CRITICAL == 4
\* task.timeout < 30000: two units of a task's timeout stand for 30 s
ShortTimeout == 2
\* breaker.success_count >= 3
CloseAfter == 3

Undef == -1
None == 0
NoAgent == "undefined"
Agents == {"collector", "analyzer"}
\* the peers the model calls (AGENT_PORTS has a port for each) and a name it has none for
Peers == {"collector", "processor"}
Stranger == "stranger"
\* this.agentName of the protocol instance
SelfName == "coordinator"
\* the client keys (req.ip) of inbound requests
Clients == {"10.0.0.1", "10.0.0.2"}

Priorities == NORMAL..HIGH
Timeouts == 1..MaxTimeout
RetryChoices == 0..MaxRetries
\* one id more than Spec ever creates: an id no task of Spec has
TaskIds == 1..(MaxTasks + 1)

VARIABLES
  queue,        \* TaskQueue.queue: pending task ids, in array order
  processing,   \* TaskQueue.processing: ids in Map insertion order
  completed,    \* TaskQueue.completed: ids held by the completed store
  tasks,        \* the Task objects, indexed by id
  config,       \* TaskConfig
  now,          \* the clock read by new Date() / Date.now()
  failCalls,    \* history: per task, failTask invocations that found it
  requeues,     \* history: per task, re-insertions into the pending array
  out,          \* history: the ids returned by dequeue, in order (SpecEnqDeq)
  terminalAt,   \* history: per task, when it became COMPLETED, FAILED or CANCELLED
  routeTable,   \* TaskRouter.routeTable: Map task type -> agent list
  agentLoads,   \* LoadBalancer.agentLoads: Map agent -> load
  agentStatus,  \* LoadBalancer.agentStatus: Map agent -> boolean
  executions,   \* simulateTaskExecution calls in flight: <<task, agent>> -> how many
  circuitBreaker,   \* EnhancedCommunicationProtocol.circuitBreaker: Map peer -> state
  connectedAgents,  \* the keys of EnhancedCommunicationProtocol.connectedAgents
  inflight,         \* outbound calls awaiting fetch: <<kind, peer>> -> how many
  cbHist,           \* history: per peer, the reports made since the breaker last changed
  rateLimiter,      \* EnhancedCommunicationProtocol.rateLimiter: Map client key -> timestamps
  admittedAt,       \* history: per client key and time, the requests admitted then
  services,         \* ServiceRegistry.services: Map service id -> ServiceInstance
  selected,         \* the last direct selectBestAgent call: its argument and result
  regEvents,        \* history: the events the last registry operation emitted, per
                    \* service id the service_expired events emitted so far, and
                    \* per service id when a probe of it last settled
  routed,           \* the last direct routeTask call: its argument and result
  handled,          \* history: the last request to POST /message or /messages/batch,
                    \* its response and the messages handed to handleMessageInternal
  broadcast,        \* the broadcastMessage call in progress or last finished: the
                    \* groups still to send and the results pushed so far
  localCache,       \* ServiceDiscovery.localCache: Map cache key -> cached array
  discovered,       \* history: the last discover call, its time and for each instance
                    \* it returned whether and when the registry had dropped it
  timers,           \* the scheduler's timer callbacks: per activity how many
                    \* invocations have started and not returned, and the
                    \* continuations waiting at an await
  probes            \* checkServiceHealth calls awaiting their fetch, each with
                    \* the instance object it was called with

qvars == <<queue, processing, completed, tasks, terminalAt>>
hvars == <<failCalls, requeues, out>>
svars == <<routeTable, agentLoads, agentStatus, executions>>
cvars == <<circuitBreaker, connectedAgents, inflight, cbHist>>
rvars == <<rateLimiter, admittedAt>>
gvars == <<services, regEvents>>
bvars == <<selected>>
xvars == <<routed, handled, broadcast, localCache, discovered, timers, probes>>
xNotRouted == <<handled, broadcast, localCache, discovered, timers, probes>>
xNotHandled == <<routed, broadcast, localCache, discovered, timers, probes>>
xNotBroadcast == <<routed, handled, localCache, discovered, timers, probes>>
xNotCache == <<routed, handled, broadcast, discovered, timers>>
xNotDiscovery == <<routed, handled, broadcast, timers, probes>>
xNotTimers == <<routed, handled, broadcast, localCache, discovered, probes>>
xNotProbes == <<routed, handled, broadcast, localCache, discovered, timers>>
vars == <<queue, processing, completed, tasks, terminalAt, config, now, failCalls, requeues, out,
          routeTable, agentLoads, agentStatus, executions,
          circuitBreaker, connectedAgents, inflight, cbHist, rateLimiter, admittedAt,
          services, regEvents, selected, routed, handled, broadcast, localCache, discovered,
          timers, probes>>

\* ------------------------------------------------------------ task-queue.ts
SeqToSet(s) == {s[i] : i \in 1..Len(s)}

RemoveAt(s, k) == SubSeq(s, 1, k - 1) \o SubSeq(s, k + 1, Len(s))

IndexOf(s, x) == IF \E k \in 1..Len(s) : s[k] = x
                 THEN CHOOSE k \in 1..Len(s) : s[k] = x /\ \A j \in 1..(k - 1) : s[j] # x
                 ELSE 0

RemoveId(s, x) == IF IndexOf(s, x) = 0 THEN s ELSE RemoveAt(s, IndexOf(s, x))

\* the TaskQueue object as one value
TQ == [queue |-> queue, processing |-> processing, completed |-> completed, tasks |-> tasks]

NewTask(fields, t) ==
  [type |-> fields.type, subtype |-> fields.subtype, priority |-> fields.priority,
   status |-> "pending",
   retry_count |-> 0, max_retries |-> fields.max_retries, timeout |-> fields.timeout,
   assigned_agent |-> NoAgent, started_at |-> Undef, completed_at |-> Undef,
   error |-> "", result |-> ""]

\* Array.prototype.sort((a, b) => b.priority - a.priority): stable, descending
RECURSIVE InsertByPriority_unstable(_, _, _)
InsertByPriority_unstable(s, x, T) ==
  IF s = <<>> THEN <<x>>
  ELSE IF T[Head(s)].priority > T[x].priority
       THEN <<Head(s)>> \o InsertByPriority_unstable(Tail(s), x, T)
       ELSE <<x>> \o s

RECURSIVE InsertByPriority(_, _, _)
InsertByPriority(s, x, T) ==
  IF s = <<>> THEN <<x>>
  ELSE IF T[Head(s)].priority >= T[x].priority
       THEN <<Head(s)>> \o InsertByPriority(Tail(s), x, T)
       ELSE <<x>> \o s

RECURSIVE SortByPriority(_, _)
SortByPriority(s, T) ==
  IF s = <<>> THEN <<>>
  ELSE InsertByPriority(SortByPriority(SubSeq(s, 1, Len(s) - 1), T), s[Len(s)], T)

enqueue(q, fields, t) ==
  LET T == Append(q.tasks, NewTask(fields, t))
      id == Len(T)
  IN [q |-> [q EXCEPT !.tasks = T, !.queue = SortByPriority(Append(q.queue, id), T)],
      ret |-> id]

dequeue_offByOne(q, agentId, t, cfg) ==
  IF Len(q.queue) = 0 THEN [q |-> q, ret |-> None]
  ELSE IF Len(q.processing) > cfg.max_concurrent_tasks THEN [q |-> q, ret |-> None]
  ELSE LET id == Head(q.queue)
       IN [q |-> [q EXCEPT !.queue = Tail(q.queue),
                           !.tasks[id].status = "assigned",
                           !.tasks[id].assigned_agent = agentId,
                           !.processing = Append(q.processing, id)],
           ret |-> id]

dequeue(q, agentId, t, cfg) ==
  IF Len(q.queue) = 0 THEN [q |-> q, ret |-> None]
  ELSE IF Len(q.processing) >= cfg.max_concurrent_tasks THEN [q |-> q, ret |-> None]
  ELSE LET id == Head(q.queue)
       IN [q |-> [q EXCEPT !.queue = Tail(q.queue),
                           !.tasks[id].status = "assigned",
                           !.tasks[id].assigned_agent = agentId,
                           !.processing = Append(q.processing, id)],
           ret |-> id]

InProcessing(q, id) == id \in SeqToSet(q.processing)

startTask(q, id, t) ==
  IF ~InProcessing(q, id) THEN [q |-> q, thrown |-> TRUE]
  ELSE [q |-> [q EXCEPT !.tasks[id].status = "running",
                        !.tasks[id].started_at = t],
        thrown |-> FALSE]

completeTask(q, id, result, t) ==
  IF ~InProcessing(q, id) THEN [q |-> q, thrown |-> TRUE]
  ELSE [q |-> [q EXCEPT !.tasks[id].status = "completed",
                        !.tasks[id].result = result,
                        !.tasks[id].completed_at = t,
                        !.processing = RemoveId(q.processing, id),
                        !.completed = q.completed \cup {id}],
        thrown |-> FALSE]

RetriesExhausted_twoMore(rc, max_retries) == rc > max_retries + 1

RetriesExhausted_oneMore(rc, max_retries) == rc > max_retries

RetriesExhausted(rc, max_retries) == rc >= max_retries

failTask(q, id, error, t) ==
  IF ~InProcessing(q, id) THEN [q |-> q, thrown |-> TRUE]
  ELSE LET rc == q.tasks[id].retry_count + 1
       IN IF RetriesExhausted(rc, q.tasks[id].max_retries)
          THEN [q |-> [q EXCEPT !.tasks[id].retry_count = rc,
                                !.tasks[id].error = error,
                                !.tasks[id].status = "failed",
                                !.tasks[id].completed_at = t,
                                !.processing = RemoveId(q.processing, id),
                                !.completed = q.completed \cup {id}],
                thrown |-> FALSE]
          ELSE [q |-> [q EXCEPT !.tasks[id].retry_count = rc,
                                !.tasks[id].error = error,
                                !.tasks[id].status = "pending",
                                !.tasks[id].assigned_agent = NoAgent,
                                !.tasks[id].started_at = Undef,
                                !.processing = RemoveId(q.processing, id),
                                !.queue = Append(q.queue, id)],
                thrown |-> FALSE]

cancelTask_anyTask(q, id, t) ==
  IF IndexOf(q.queue, id) # 0
  THEN [q EXCEPT !.queue = RemoveAt(q.queue, IndexOf(q.queue, id)),
                 !.tasks[id].status = "cancelled",
                 !.completed = q.completed \cup {id}]
  ELSE IF id <= Len(q.tasks)
  THEN [q EXCEPT !.tasks[id].status = "cancelled",
                 !.tasks[id].completed_at = t,
                 !.processing = RemoveId(q.processing, id),
                 !.completed = q.completed \cup {id}]
  ELSE q

cancelTask_keepQueued(q, id, t) ==
  IF IndexOf(q.queue, id) # 0
  THEN [q EXCEPT !.tasks[id].status = "cancelled",
                 !.completed = q.completed \cup {id}]
  ELSE IF InProcessing(q, id)
  THEN [q EXCEPT !.tasks[id].status = "cancelled",
                 !.tasks[id].completed_at = t,
                 !.processing = RemoveId(q.processing, id),
                 !.completed = q.completed \cup {id}]
  ELSE q

cancelTask(q, id, t) ==
  IF IndexOf(q.queue, id) # 0
  THEN [q EXCEPT !.queue = RemoveAt(q.queue, IndexOf(q.queue, id)),
                 !.tasks[id].status = "cancelled",
                 !.completed = q.completed \cup {id}]
  ELSE IF InProcessing(q, id)
  THEN [q EXCEPT !.tasks[id].status = "cancelled",
                 !.tasks[id].completed_at = t,
                 !.processing = RemoveId(q.processing, id),
                 !.completed = q.completed \cup {id}]
  ELSE q

TimedOut_atLimit(q, id, t) ==
  q.tasks[id].started_at # Undef /\ t - q.tasks[id].started_at >= q.tasks[id].timeout

\* the ids checkTimeouts collects, in Map iteration order
TimedOut(q, id, t) ==
  q.tasks[id].started_at # Undef /\ t - q.tasks[id].started_at > q.tasks[id].timeout

timedOutTasks(q, t) == SelectSeq(q.processing, LAMBDA id : TimedOut(q, id, t))

RECURSIVE FailAll(_, _, _, _)
FailAll(q, ids, error, t) ==
  IF ids = <<>> THEN q
  ELSE FailAll(failTask(q, Head(ids), error, t).q, Tail(ids), error, t)

checkTimeouts(q, t) == FailAll(q, timedOutTasks(q, t), "Task timeout", t)

\* completed_at! < cutoffDate: an undefined completed_at compares false
cleanup(q, t, cfg) ==
  LET cutoffDate == t - cfg.task_retention_days
      tasksToRemove == {id \in q.completed :
                          q.tasks[id].completed_at # Undef /\ q.tasks[id].completed_at < cutoffDate}
  IN [q EXCEPT !.completed = q.completed \ tasksToRemove]

getQueueStatus(q, cfg) ==
  [queued |-> Len(q.queue), processing |-> Len(q.processing),
   completed |-> Cardinality(q.completed), max_concurrent |-> cfg.max_concurrent_tasks]

\* ----------------------------------------------------------- task-router.ts
\* the seeded table, restricted to the task types the model creates
\* Map.set(k, v) on a Map held as a function whose domain is its key set
MapSet(m, k, v) == [x \in (DOMAIN m) \cup {k} |-> IF x = k THEN v ELSE m[x]]

MapDelete(m, k) == [x \in (DOMAIN m) \ {k} |-> m[x]]

initializeRoutes ==
  [ty \in {"collect_news", "detect_risks"} |->
     IF ty = "collect_news" THEN <<"collector">> ELSE <<"analyzer">>]

\* the switch on the task type: its known subtypes return a fixed list
routeBySubtype(taskType, subtype, capableAgents) ==
  IF taskType = "collect_news" /\ subtype \in {"rss", "web", "api"} THEN <<"collector">>
  ELSE IF taskType = "process_content" /\ subtype \in {"clean", "extract"} THEN <<"processor">>
  ELSE IF taskType = "analyze_sentiment" /\ subtype \in {"basic", "advanced"} THEN <<"analyzer">>
  ELSE capableAgents

\* this.routeTable.get(task.type) || []; a subtype of "" stands for an absent one
routeTask(rt, task) ==
  LET capableAgents == IF task.type \in DOMAIN rt THEN rt[task.type] ELSE <<>>
  IN IF task.subtype # "" THEN routeBySubtype(task.type, task.subtype, capableAgents)
     ELSE capableAgents

addRoute(rt, taskType, agents) == MapSet(rt, taskType, agents)

removeRoute(rt, taskType) == MapDelete(rt, taskType)

\* this.agentLoads.get(agentId) || 0
Load(loads, a) == IF a \in DOMAIN loads THEN loads[a] ELSE 0

updateAgentLoad(loads, a, load) == MapSet(loads, a, load)

updateAgentStatus(st, a, isHealthy) == MapSet(st, a, isHealthy)

resetAgentLoad(loads, a) == MapDelete(loads, a)

RECURSIVE LowestLoad_lastTie(_, _, _)
LowestLoad_lastTie(best, rest, loads) ==
  IF rest = <<>> THEN best
  ELSE IF Load(loads, Head(rest)) <= Load(loads, best)
       THEN LowestLoad_lastTie(Head(rest), Tail(rest), loads)
       ELSE LowestLoad_lastTie(best, Tail(rest), loads)

RECURSIVE LowestLoad(_, _, _)
LowestLoad(best, rest, loads) ==
  IF rest = <<>> THEN best
  ELSE IF Load(loads, Head(rest)) < Load(loads, best)
       THEN LowestLoad(Head(rest), Tail(rest), loads)
       ELSE LowestLoad(best, Tail(rest), loads)

selectBestAgent(candidateAgents, loads, st) ==
  LET healthyAgents == SelectSeq(candidateAgents, LAMBDA a : ~(a \in DOMAIN st /\ st[a] = FALSE))
  IN IF Len(candidateAgents) = 0 THEN NoAgent
     ELSE IF Len(healthyAgents) = 0 THEN NoAgent
     ELSE LowestLoad(Head(healthyAgents), Tail(healthyAgents), loads)

calculatePriority(task) ==
  LET base == IF task.type = "detect_risks" THEN HIGH ELSE NORMAL
      p1 == IF "urgent" \in task.tags THEN (IF base + 1 < CRITICAL THEN base + 1 ELSE CRITICAL) ELSE base
      p2 == IF "low-priority" \in task.tags THEN (IF p1 - 1 > LOW THEN p1 - 1 ELSE LOW) ELSE p1
  IN IF task.timeout # 0 /\ task.timeout < ShortTimeout
     THEN (IF p2 + 1 < CRITICAL THEN p2 + 1 ELSE CRITICAL) ELSE p2

\* ------------------------------------------------------- task-scheduler.ts
\* the scheduler's mutable state as one value; fc and rq are the history counters
SchedFail(S, id, error, t) ==
  LET r == failTask(S.q, id, error, t)
  IN IF r.thrown THEN S
     ELSE [S EXCEPT !.q = r.q,
                    !.fc[id] = @ + 1,
                    !.rq[id] = IF id \in SeqToSet(r.q.queue) THEN @ + 1 ELSE @]

simulateTaskExecution(S, id, agentId) == [S EXCEPT !.execs[<<id, agentId>>] = @ + 1]

assignTaskToAgent(S, id, agentId, t) ==
  LET S1 == [S EXCEPT !.loads = updateAgentLoad(S.loads, agentId, Load(S.loads, agentId) + 1)]
      r == startTask(S1.q, id, t)
  IN IF r.thrown THEN SchedFail(S1, id, "Assignment failed", t)
     ELSE simulateTaskExecution([S1 EXCEPT !.q = r.q], id, agentId)

scheduleNextTask_dropUnhealthy(S, rt, st, t, cfg) ==
  LET d == dequeue(S.q, NoAgent, t, cfg)
      S1 == [S EXCEPT !.q = d.q]
      capableAgents == routeTask(rt, d.q.tasks[d.ret])
      selectedAgent == selectBestAgent(capableAgents, S.loads, st)
  IN IF d.ret = None THEN S
     ELSE IF Len(capableAgents) = 0
          THEN SchedFail(S1, d.ret, "No capable agents available", t)
     ELSE IF selectedAgent = NoAgent THEN S1
     ELSE assignTaskToAgent(S1, d.ret, selectedAgent, t)

scheduleNextTask(S, rt, st, t, cfg) ==
  LET d == dequeue(S.q, NoAgent, t, cfg)
      S1 == [S EXCEPT !.q = d.q]
      capableAgents == routeTask(rt, d.q.tasks[d.ret])
      selectedAgent == selectBestAgent(capableAgents, S.loads, st)
  IN IF d.ret = None THEN S
     ELSE IF Len(capableAgents) = 0
          THEN SchedFail(S1, d.ret, "No capable agents available", t)
     ELSE IF selectedAgent = NoAgent
          THEN SchedFail(S1, d.ret, "No healthy agents available", t)
     ELSE assignTaskToAgent(S1, d.ret, selectedAgent, t)

RECURSIVE ScheduleLoop(_, _, _, _, _, _)
ScheduleLoop(S, n, rt, st, t, cfg) ==
  IF n = 0 THEN S
  ELSE ScheduleLoop(scheduleNextTask(S, rt, st, t, cfg), n - 1, rt, st, t, cfg)

scheduleTasks(S, rt, st, t, cfg) ==
  LET queueStatus == getQueueStatus(S.q, cfg)
  IN IF queueStatus.processing >= queueStatus.max_concurrent THEN S
     ELSE ScheduleLoop(S, queueStatus.max_concurrent - queueStatus.processing, rt, st, t, cfg)

\* the timer of simulateTaskExecution fires: completeTask, then the load is
\* decremented; when completeTask throws, the catch block's failTask throws too
\* and the decrement after it is not reached
executionDone(S, id, agentId, t) ==
  LET S0 == [S EXCEPT !.execs[<<id, agentId>>] = @ - 1]
      r == completeTask(S0.q, id, "result", t)
      f == failTask(S0.q, id, "Execution failed", t)
      dec == LET l == Load(S0.loads, agentId) - 1 IN IF l > 0 THEN l ELSE 0
  IN IF ~r.thrown
     THEN [S0 EXCEPT !.q = r.q, !.loads = updateAgentLoad(S0.loads, agentId, dec)]
     ELSE IF f.thrown THEN S0
     ELSE [SchedFail(S0, id, "Execution failed", t) EXCEPT
             !.loads = updateAgentLoad(S0.loads, agentId, dec)]

createTask(q, taskData, t, cfg) ==
  enqueue(q, [type |-> taskData.type,
              subtype |-> taskData.subtype,
              priority |-> calculatePriority(taskData),
              max_retries |-> IF taskData.max_retries # 0 THEN taskData.max_retries
                              ELSE cfg.max_retries,
              timeout |-> IF taskData.timeout # 0 THEN taskData.timeout
                          ELSE cfg.default_timeout], t)

\* ---------------------------------------------- enhanced communication protocol
CallKinds == {"message", "batch"}

CBConfig == [enabled |-> TRUE, failure_threshold |-> FailureThreshold,
             recovery_timeout |-> RecoveryTimeout]

AGENT_PORTS == Peers

initializeCircuitBreakerForAgent(cb, agentName, cfg) ==
  IF ~cfg.enabled THEN cb
  ELSE MapSet(cb, agentName,
              [state |-> "CLOSED", failures |-> 0, last_failure_time |-> 0, success_count |-> 0])

ThresholdReached_late(failures, cfg) == failures > cfg.failure_threshold

\* breaker.failures >= this.circuitBreakerConfig.failure_threshold
ThresholdReached(failures, cfg) == failures >= cfg.failure_threshold

ClosesOnSuccess_early(b) == b.state = "HALF_OPEN" /\ b.success_count + 1 >= CloseAfter - 1

\* breaker.state === 'HALF_OPEN' && breaker.success_count >= 3, after the increment
ClosesOnSuccess(b) == b.state = "HALF_OPEN" /\ b.success_count + 1 >= CloseAfter

updateCircuitBreaker(cb, agentName, success, t, cfg) ==
  IF ~cfg.enabled THEN cb
  ELSE IF agentName \notin DOMAIN cb THEN cb
  ELSE LET b == cb[agentName]
       IN IF success
          THEN IF ClosesOnSuccess(b)
               THEN [cb EXCEPT ![agentName] = [b EXCEPT !.failures = 0, !.state = "CLOSED",
                                                        !.success_count = 0]]
               ELSE [cb EXCEPT ![agentName] = [b EXCEPT !.failures = 0,
                                                        !.success_count = @ + 1]]
          ELSE IF ThresholdReached(b.failures + 1, cfg)
               THEN [cb EXCEPT ![agentName] = [b EXCEPT !.failures = @ + 1,
                                                        !.last_failure_time = t,
                                                        !.success_count = 0,
                                                        !.state = "OPEN"]]
               ELSE [cb EXCEPT ![agentName] = [b EXCEPT !.failures = @ + 1,
                                                        !.last_failure_time = t,
                                                        !.success_count = 0]]

RecoveryElapsed(b, t, cfg) == t - b.last_failure_time > cfg.recovery_timeout

isCircuitBreakerOpen(cb, agentName, t, cfg) ==
  IF ~cfg.enabled THEN [cb |-> cb, open |-> FALSE]
  ELSE IF agentName \notin DOMAIN cb THEN [cb |-> cb, open |-> FALSE]
  ELSE IF cb[agentName].state = "OPEN"
       THEN IF RecoveryElapsed(cb[agentName], t, cfg)
            THEN [cb |-> [cb EXCEPT ![agentName].state = "HALF_OPEN",
                                    ![agentName].success_count = 0],
                  open |-> FALSE]
            ELSE [cb |-> cb, open |-> TRUE]
       ELSE [cb |-> cb, open |-> FALSE]

SweepPromotes_anyOpen(b, t, cfg) == b.state = "OPEN"

SweepPromotes(b, t, cfg) == b.state = "OPEN" /\ RecoveryElapsed(b, t, cfg)

checkCircuitBreakerRecovery(cb, t, cfg) ==
  [a \in DOMAIN cb |->
     IF SweepPromotes(cb[a], t, cfg)
     THEN [cb[a] EXCEPT !.state = "HALF_OPEN", !.success_count = 0]
     ELSE cb[a]]

\* the reports a resolved fetch makes to the breaker: response.ok and a parsed
\* body report one success; a rejected or aborted fetch, a non-2xx status or an
\* unparsable body throw into the catch block, which reports one failure
FetchOutcomes == {"ok", "rejected", "status", "badjson"}

reportsOfFetch(outcome) == IF outcome = "ok" THEN <<TRUE>> ELSE <<FALSE>>

sendStart_unchecked(cb, targetAgent, t, cfg) ==
  IF targetAgent \notin AGENT_PORTS THEN [cb |-> cb, outcome |-> "unknown"]
  ELSE [cb |-> cb, outcome |-> "attempted"]

\* sendMessage and sendBatchToAgent up to the fetch
sendStart(cb, targetAgent, t, cfg) ==
  IF targetAgent \notin AGENT_PORTS THEN [cb |-> cb, outcome |-> "unknown"]
  ELSE LET c == isCircuitBreakerOpen(cb, targetAgent, t, cfg)
       IN IF c.open THEN [cb |-> cb, outcome |-> "rejected"]
          ELSE [cb |-> c.cb, outcome |-> "attempted"]

sendMessage(cb, targetAgent, t, cfg) == sendStart(cb, targetAgent, t, cfg)

sendBatchToAgent(cb, targetAgent, t, cfg) == sendStart(cb, targetAgent, t, cfg)

\* the rate limiter of the inbound path
RLConfig == [enabled |-> TRUE, max_requests |-> MaxRequests, time_window |-> TimeWindow]

FilterRecent(requests, windowStart) == SelectSeq(requests, LAMBDA time : time > windowStart)

rateLimitMiddleware(rl, clientIp, t, cfg) ==
  LET requests == FilterRecent(IF clientIp \in DOMAIN rl THEN rl[clientIp] ELSE <<>>,
                               t - cfg.time_window)
  IN IF Len(requests) >= cfg.max_requests
     THEN [rl |-> rl, admitted |-> FALSE]
     ELSE [rl |-> MapSet(rl, clientIp, Append(requests, t)), admitted |-> TRUE]

\* history kept beside the breaker map: fails = failure reports in a row for
\* the peer, sendFails = those of them made by failed outbound calls, succs =
\* success reports in a row since its breaker became HALF_OPEN, via = what made
\* it HALF_OPEN last, owed = outbound calls attempted minus reports they made
NoHist == [fails |-> 0, sendFails |-> 0, succs |-> 0, via |-> "none", owed |-> 0]

HistReport(h, agentName, success, outbound) ==
  IF agentName \notin DOMAIN h THEN h
  ELSE IF success
       THEN [h EXCEPT ![agentName].fails = 0, ![agentName].sendFails = 0,
                      ![agentName].succs = @ + 1,
                      ![agentName].owed = IF outbound THEN @ - 1 ELSE @]
       ELSE [h EXCEPT ![agentName].fails = @ + 1,
                      ![agentName].sendFails = IF outbound THEN @ + 1 ELSE @,
                      ![agentName].succs = 0,
                      ![agentName].owed = IF outbound THEN @ - 1 ELSE @]

HistPromote(h, cbOld, cbNew, by) ==
  [a \in DOMAIN h |->
     IF a \in DOMAIN cbOld /\ a \in DOMAIN cbNew
        /\ cbOld[a].state = "OPEN" /\ cbNew[a].state = "HALF_OPEN"
     THEN [h[a] EXCEPT !.succs = 0, !.via = by]
     ELSE h[a]]

\* the breaker map with its history as one value
Report(C, agentName, success, t, cfg) ==
  [cb |-> updateCircuitBreaker(C.cb, agentName, success, t, cfg),
   hist |-> HistReport(C.hist, agentName, success, FALSE)]

\* the reports of a resolved outbound call, in order
RECURSIVE ReportAll(_, _, _, _, _)
ReportAll(C, agentName, reports, t, cfg) ==
  IF reports = <<>> THEN C
  ELSE ReportAll([cb |-> updateCircuitBreaker(C.cb, agentName, Head(reports), t, cfg),
                  hist |-> HistReport(C.hist, agentName, Head(reports), TRUE)],
                 agentName, Tail(reports), t, cfg)

Admit(C, agentName, t, cfg) ==
  LET c == isCircuitBreakerOpen(C.cb, agentName, t, cfg)
  IN [C |-> [cb |-> c.cb, hist |-> HistPromote(C.hist, C.cb, c.cb, "check")], open |-> c.open]

\* handleMessage: an open breaker throws inside the try block, like a handler
\* that throws, and the catch block reports a failure for message.from
handleMessage(C, from, handlerThrows, t, cfg) ==
  LET a == Admit(C, from, t, cfg)
  IN IF a.open THEN Report(a.C, from, FALSE, t, cfg)
     ELSE IF handlerThrows THEN Report(a.C, from, FALSE, t, cfg)
     ELSE a.C

RECURSIVE handleBatchMessages(_, _, _, _)
handleBatchMessages(C, messages, t, cfg) ==
  IF messages = <<>> THEN C
  ELSE LET m == Head(messages)
           a == Admit(C, m.from, t, cfg)
           C1 == IF a.open THEN a.C
                 ELSE IF m.throws THEN Report(a.C, m.from, FALSE, t, cfg)
                 ELSE Report(a.C, m.from, TRUE, t, cfg)
       IN handleBatchMessages(C1, Tail(messages), t, cfg)

\* the handlers handleBatchMessages hands to handleMessageInternal, in order
RECURSIVE batchDispatched(_, _, _, _)
batchDispatched(C, messages, t, cfg) ==
  IF messages = <<>> THEN <<>>
  ELSE LET m == Head(messages)
           a == Admit(C, m.from, t, cfg)
           C1 == handleBatchMessages(C, <<m>>, t, cfg)
       IN (IF a.open THEN <<>> ELSE <<m>>) \o batchDispatched(C1, Tail(messages), t, cfg)

\* An AgentMessage carries from, to, type, action, timestamp and message_id; ""
\* and 0 stand for a field that is absent or falsy.  throws is not part of the
\* message: it tells whether the handler registered for its action throws on it.
MESSAGE_TYPES == {"request", "response", "event"}

requiredFields == <<"from", "to", "type", "action", "timestamp", "message_id">>

Field(message, field) ==
  IF field = "from" THEN message.from # ""
  ELSE IF field = "to" THEN message.to # ""
  ELSE IF field = "type" THEN message.type # ""
  ELSE IF field = "action" THEN message.action # ""
  ELSE IF field = "timestamp" THEN message.timestamp # 0
  ELSE message.message_id # ""

\* the first required field the loop finds missing, "" when there is none
FirstMissing(message) ==
  LET missing == SelectSeq(requiredFields, LAMBDA f : ~Field(message, f))
  IN IF missing = <<>> THEN "" ELSE Head(missing)

Abs(x) == IF x < 0 THEN -x ELSE x

validateMessage_noWindow(message, requestId, t) ==
  IF FirstMissing(message) # ""
  THEN [next |-> FALSE,
        res |-> [status |-> 400, error |-> "Missing required field",
                 field |-> FirstMissing(message),
                 request_id |-> requestId]]
  ELSE IF message.type \notin MESSAGE_TYPES
  THEN [next |-> FALSE,
        res |-> [status |-> 400, error |-> "Invalid message type", field |-> "",
                 request_id |-> requestId]]
  ELSE [next |-> TRUE,
        res |-> [status |-> 0, error |-> "", field |-> "", request_id |-> requestId]]

\* next is TRUE when the middleware calls next(); res is the response it sends otherwise
validateMessage(message, requestId, t) ==
  IF FirstMissing(message) # ""
  THEN [next |-> FALSE,
        res |-> [status |-> 400, error |-> "Missing required field",
                 field |-> FirstMissing(message),
                 request_id |-> requestId]]
  ELSE IF message.type \notin MESSAGE_TYPES
  THEN [next |-> FALSE,
        res |-> [status |-> 400, error |-> "Invalid message type", field |-> "",
                 request_id |-> requestId]]
  ELSE IF Abs(t - message.timestamp) > ReplayWindow
  THEN [next |-> FALSE,
        res |-> [status |-> 400, error |-> "Message timestamp too old or too new", field |-> "",
                 request_id |-> requestId]]
  ELSE [next |-> TRUE,
        res |-> [status |-> 0, error |-> "", field |-> "", request_id |-> requestId]]

\* the body of the model is always an array: the Array.isArray test passes
validateBatchMessages(messages, requestId) ==
  LET bad == {i \in 1..Len(messages) : FirstMissing(messages[i]) # ""}
      i == CHOOSE k \in bad : \A j \in bad : k <= j
  IN IF Len(messages) > BatchLimit
     THEN [next |-> FALSE,
           res |-> [status |-> 400, error |-> "Batch size cannot exceed 100 messages",
                    field |-> "", request_id |-> requestId]]
     ELSE IF bad # {}
     THEN [next |-> FALSE,
           res |-> [status |-> 400, error |-> "Message i missing required field",
                    field |-> FirstMissing(messages[i]), request_id |-> requestId]]
     ELSE [next |-> TRUE,
           res |-> [status |-> 0, error |-> "", field |-> "", request_id |-> requestId]]

\* POST /message: validateMessage, then handleMessage
postMessage(C, message, requestId, t, cfg) ==
  LET v == validateMessage(message, requestId, t)
      a == Admit(C, message.from, t, cfg)
  IN IF ~v.next THEN [C |-> C, res |-> v.res, dispatched |-> <<>>]
     ELSE [C |-> handleMessage(C, message.from, message.throws, t, cfg),
           res |-> IF a.open
                   THEN [status |-> 500, error |-> "Circuit breaker is open for agent",
                         field |-> "", request_id |-> requestId]
                   ELSE IF message.throws
                   THEN [status |-> 500, error |-> "handler", field |-> "",
                         request_id |-> requestId]
                   ELSE [status |-> 200, error |-> "", field |-> "", request_id |-> requestId],
           dispatched |-> IF a.open THEN <<>> ELSE <<message>>]

\* POST /messages/batch: validateBatchMessages, then handleBatchMessages
postMessagesBatch(C, messages, requestId, t, cfg) ==
  LET v == validateBatchMessages(messages, requestId)
  IN IF ~v.next THEN [C |-> C, res |-> v.res, dispatched |-> <<>>]
     ELSE [C |-> handleBatchMessages(C, messages, t, cfg),
           res |-> [status |-> 200, error |-> "", field |-> "", request_id |-> requestId],
           dispatched |-> batchDispatched(C, messages, t, cfg)]

\* body holds the message of a single-message request, size the length of a batch
NoRequest == [route |-> "none", at |-> 0, body |-> <<>>, size |-> 0,
              res |-> [status |-> 0, error |-> "", field |-> "", request_id |-> ""],
              dispatched |-> <<>>]

\* sendBatchToAgent up to the fetch, with the history kept beside the breakers
StartSend(C, targetAgent, t, cfg) ==
  LET r == sendBatchToAgent(C.cb, targetAgent, t, cfg)
      h == HistPromote(C.hist, C.cb, r.cb, "check")
  IN [C |-> [cb |-> r.cb,
             hist |-> IF r.outcome = "attempted" /\ targetAgent \in DOMAIN h
                      THEN [h EXCEPT ![targetAgent].owed = @ + 1] ELSE h],
      outcome |-> r.outcome]

catchSendFailure_rethrow(results, targetAgent, error) ==
  [aborted |-> TRUE, results |-> results]

\* the catch block of the loop of sendBatchMessages
catchSendFailure(results, targetAgent, error) ==
  [aborted |-> FALSE,
   results |-> Append(results, [targetAgent |-> targetAgent, success |-> FALSE])]

\* the loop of sendBatchMessages from the group at the head of targets on, up
\* to the first fetch it has to wait for or to its end
RECURSIVE sendBatchLoop(_, _, _, _, _)
sendBatchLoop(C, targets, results, t, cfg) ==
  IF targets = <<>> THEN [C |-> C, targets |-> <<>>, results |-> results, phase |-> "done"]
  ELSE LET r == StartSend(C, Head(targets), t, cfg)
           c == catchSendFailure(results, Head(targets), r.outcome)
       IN IF r.outcome = "attempted"
          THEN [C |-> r.C, targets |-> targets, results |-> results, phase |-> "awaiting"]
          ELSE IF c.aborted
          THEN [C |-> r.C, targets |-> <<>>, results |-> c.results, phase |-> "failed"]
          ELSE sendBatchLoop(r.C, Tail(targets), c.results, t, cfg)

\* the fetch the loop waits for settles: the breaker report of
\* sendBatchToAgent, the result entry, then the rest of the loop
sendBatchResume(C, targets, results, outcome, t, cfg) ==
  LET C1 == ReportAll(C, Head(targets), reportsOfFetch(outcome), t, cfg)
      c == catchSendFailure(results, Head(targets), outcome)
  IN IF outcome = "ok"
     THEN sendBatchLoop(C1, Tail(targets),
                        Append(results, [targetAgent |-> Head(targets), success |-> TRUE]),
                        t, cfg)
     ELSE IF c.aborted
     THEN [C |-> C1, targets |-> <<>>, results |-> c.results, phase |-> "failed"]
     ELSE sendBatchLoop(C1, Tail(targets), c.results, t, cfg)

\* Array.from(this.connectedAgents.keys()).filter(agentName => agentName !== this.agentName)
broadcastTargets(keys, self) == SelectSeq(keys, LAMBDA agentName : agentName # self)

\* keys is the key set of the table when broadcastMessage was called
NoBroadcast == [phase |-> "idle", keys |-> {}, targets |-> <<>>, results |-> <<>>]

\* -------------------------------------------------------- service registry
\* A ServiceInstance carries id, name, host, port, status, capabilities,
\* health_check_url ("" when it has none), last_heartbeat and registered_at;
\* type, metadata, tags and version are payload no operation modelled here
\* decides on.  The
\* services Map is a function: the order of its values is not modelled.
RegistryConfig == [heartbeat_timeout |-> HeartbeatTimeout, enable_health_checks |-> TRUE]

\* what callers register: the two join to the same id prefix
ServiceInputs ==
  { [name |-> "svc", host |-> "h-1", port |-> 80, capabilities |-> {"collect"},
     health_check_url |-> "http://h-1/health"],
    [name |-> "svc-h", host |-> "1", port |-> 80, capabilities |-> {"analyze"},
     health_check_url |-> ""] }

\* `${name}-${host}-${port}-${Date.now()}`
generateServiceId(name, host, port, t) ==
  name \o "-" \o host \o "-" \o ToString(port) \o "-" \o ToString(t)

ServiceIds == {generateServiceId(i.name, i.host, i.port, t) : i \in ServiceInputs, t \in 1..MaxTime}

emit(ev, event, serviceId) ==
  [ev EXCEPT !.last = ev.last \cup {<<event, serviceId>>},
             !.expired = IF event = "service_expired"
                         THEN [ev.expired EXCEPT ![serviceId] = @ + 1] ELSE ev.expired]

\* the history at the start of an operation
NoneEmitted(ev) == [ev EXCEPT !.last = {}]

register(R, service, t) ==
  LET serviceId == generateServiceId(service.name, service.host, service.port, t)
      existingService == serviceId \in DOMAIN R.services
      serviceInstance == [id |-> serviceId, name |-> service.name, host |-> service.host,
                          port |-> service.port, capabilities |-> service.capabilities,
                          health_check_url |-> service.health_check_url,
                          status |-> "healthy", registered_at |-> t, last_heartbeat |-> t]
  IN [services |-> MapSet(R.services, serviceId, serviceInstance),
      events |-> emit(NoneEmitted(R.events), IF existingService THEN "service_updated"
                                             ELSE "service_registered", serviceId),
      ret |-> serviceId]

unregister(R, serviceId) ==
  IF serviceId \notin DOMAIN R.services
  THEN [services |-> R.services, events |-> NoneEmitted(R.events), ret |-> FALSE]
  ELSE [services |-> MapDelete(R.services, serviceId),
        events |-> emit(NoneEmitted(R.events), "service_unregistered", serviceId),
        ret |-> TRUE]

heartbeat_emitAlways(R, serviceId, status, t) ==
  IF serviceId \notin DOMAIN R.services
  THEN [services |-> R.services, events |-> NoneEmitted(R.events), ret |-> FALSE]
  ELSE LET oldStatus == R.services[serviceId].status
           newStatus == IF status = "none" THEN oldStatus ELSE status
       IN [services |-> [R.services EXCEPT ![serviceId].last_heartbeat = t,
                                           ![serviceId].status = newStatus],
           events |-> IF status # "none"
                      THEN emit(NoneEmitted(R.events), "service_status_changed", serviceId)
                      ELSE NoneEmitted(R.events),
           ret |-> TRUE]

\* status is "none" when the optional argument is left out
heartbeat(R, serviceId, status, t) ==
  IF serviceId \notin DOMAIN R.services
  THEN [services |-> R.services, events |-> NoneEmitted(R.events), ret |-> FALSE]
  ELSE LET oldStatus == R.services[serviceId].status
           newStatus == IF status = "none" THEN oldStatus ELSE status
       IN [services |-> [R.services EXCEPT ![serviceId].last_heartbeat = t,
                                           ![serviceId].status = newStatus],
           events |-> IF oldStatus # newStatus
                      THEN emit(NoneEmitted(R.events), "service_status_changed", serviceId)
                      ELSE NoneEmitted(R.events),
           ret |-> TRUE]

query(sv, q) ==
  {sv[id] : id \in {x \in DOMAIN sv :
                      /\ q.name # "" => sv[x].name = q.name
                      /\ q.capability # "" => q.capability \in sv[x].capabilities
                      /\ q.status # "" => sv[x].status = q.status}}

getService(sv, serviceId) == IF serviceId \in DOMAIN sv THEN sv[serviceId] ELSE None

getAllServices(sv) == {sv[id] : id \in DOMAIN sv}

Expired_atLimit(service, t, cfg) == t - service.last_heartbeat >= cfg.heartbeat_timeout

\* now - service.last_heartbeat > this.config.heartbeat_timeout
Expired(service, t, cfg) == t - service.last_heartbeat > cfg.heartbeat_timeout

expiredServices(sv, t, cfg) == {id \in DOMAIN sv : Expired(sv[id], t, cfg)}

cleanupExpiredServices(R, t, cfg) ==
  LET gone == expiredServices(R.services, t, cfg)
  IN [services |-> [id \in (DOMAIN R.services) \ gone |-> R.services[id]],
      events |-> [R.events EXCEPT
                    !.last = {<<"service_expired", id>> : id \in gone},
                    !.expired = [id \in DOMAIN R.events.expired |->
                                   R.events.expired[id] + IF id \in gone THEN 1 ELSE 0]]]

\* what the fetch of a probe can settle with: a 2xx response, another status, or
\* a rejection (network error or the abort of health_check_timeout)
ProbeOutcomes == {"ok", "status", "error"}

\* checkServiceHealth from the point where its fetch settles; service is the
\* instance it was called with
checkServiceHealth(R, service, outcome, t) ==
  LET newStatus == IF outcome = "ok" THEN "healthy" ELSE "unhealthy"
      quiet == [services |-> R.services, events |-> NoneEmitted(R.events), ret |-> TRUE]
  IN IF service.health_check_url = "" THEN quiet
     ELSE IF outcome = "error"
     THEN IF service.status # "unhealthy" THEN heartbeat(R, service.id, "unhealthy", t)
          ELSE quiet
     ELSE IF service.status # newStatus THEN heartbeat(R, service.id, newStatus, t)
          ELSE quiet

\* ------------------------------------------------------- ServiceDiscovery
\* registry.query returns the instances in the insertion order of the services
\* Map.  An id carries the time of its registration and two ids of the model
\* differ in it, so that order is the order of registered_at.
RECURSIVE SortedIds(_, _)
SortedIds(ids, sv) ==
  IF ids = {} THEN <<>>
  ELSE LET first == CHOOSE x \in ids : \A y \in ids : sv[x].registered_at <= sv[y].registered_at
       IN <<first>> \o SortedIds(ids \ {first}, sv)

queryList(sv, q) == SortedIds({x.id : x \in query(sv, q)}, sv)

\* The cached array holds references to the registry's instance objects.  An
\* entry is the id of the instance while the registry still holds that object
\* (heartbeat changes it in place), and from the time the registry dropped or
\* replaced the object a copy of it as it was then, with that time.
Live(id) == [id |-> id, frozen |-> <<>>, since |-> 0]

Deref(entry, sv) == IF entry.frozen = <<>> THEN sv[entry.id] ELSE entry.frozen[1]

\* the registry drops or replaces the objects it holds under ids
Detach(cache, ids, sv, t) ==
  [k \in DOMAIN cache |->
     [cache[k] EXCEPT !.items =
        [i \in 1..Len(cache[k].items) |->
           LET e == cache[k].items[i]
           IN IF e.frozen = <<>> /\ e.id \in ids
              THEN [id |-> e.id, frozen |-> <<sv[e.id]>>, since |-> t]
              ELSE e]]]

\* the instance objects held by checkServiceHealth calls awaiting their fetch
\* how is history: what made the registry let go of the object
DetachProbes(ps, ids, sv, t, how) ==
  {IF p.frozen = <<>> /\ p.id \in ids
   THEN [id |-> p.id, frozen |-> <<sv[p.id]>>, since |-> t, how |-> how] ELSE p : p \in ps}

\* performHealthChecks up to the awaits of its checkServiceHealth calls: one
\* call per registered instance; a call for an instance without
\* health_check_url returns at once
performHealthChecks(ps, sv, cfg) ==
  IF ~cfg.enable_health_checks THEN ps
  ELSE ps \cup {[id |-> id, frozen |-> <<>>, since |-> 0, how |-> ""] :
                  id \in {x \in DOMAIN sv : sv[x].health_check_url # ""}}

\* JSON.stringify of the query's fields: one key per combination of them
generateCacheKey(q) == <<q.name, q.capability, q.status>>

\* Date.now() - cached[0].last_heartbeat < this.cacheTimeout
Fresh(entry, sv, t, cacheTimeout) ==
  t - Deref(entry.items[1], sv).last_heartbeat < cacheTimeout

\* storedAt beside the cached array is history: when the array was stored
discover(cache, sv, q, useCache, t, cacheTimeout) ==
  LET cacheKey == generateCacheKey(q)
      stored == [items |-> [i \in 1..Len(queryList(sv, q)) |-> Live(queryList(sv, q)[i])],
                 storedAt |-> t]
  IN IF useCache /\ cacheKey \in DOMAIN cache /\ cache[cacheKey].items = <<>>
     THEN [cache |-> cache, ret |-> <<>>, fromCache |-> FALSE, thrown |-> TRUE,
           storedAt |-> cache[cacheKey].storedAt]
     ELSE IF useCache /\ cacheKey \in DOMAIN cache
             /\ Fresh(cache[cacheKey], sv, t, cacheTimeout)
     THEN [cache |-> cache, ret |-> cache[cacheKey].items, fromCache |-> TRUE,
           thrown |-> FALSE, storedAt |-> cache[cacheKey].storedAt]
     ELSE [cache |-> MapSet(cache, cacheKey, stored), ret |-> stored.items,
           fromCache |-> FALSE, thrown |-> FALSE, storedAt |-> t]

NoDiscover == [key |-> <<>>, at |-> 0, ret |-> <<>>, fromCache |-> FALSE, thrown |-> FALSE,
               storedAt |-> 0]

\* ------------------------------------------------- TaskQueue driven directly
InitRegistry ==
  /\ services = [id \in {} |-> 0]
  /\ regEvents = [last |-> {}, expired |-> [id \in ServiceIds |-> 0],
                  probed |-> [id \in ServiceIds |-> 0]]

InitRate ==
  /\ rateLimiter = [c \in {} |-> <<>>]
  /\ admittedAt = [c \in Clients |-> [t \in 1..MaxTime |-> 0]]

Terminal == {"completed", "failed", "cancelled"}

SetQ(q) ==
  /\ queue' = q.queue
  /\ processing' = q.processing
  /\ completed' = q.completed
  /\ tasks' = q.tasks
  /\ terminalAt' = [i \in TaskIds |->
                      IF /\ terminalAt[i] = Undef
                         /\ i <= Len(q.tasks)
                         /\ q.tasks[i].status \in {"completed", "failed", "cancelled"}
                      THEN now ELSE terminalAt[i]]

\* history bookkeeping: a task found in processing before and in queue after
\* the step was re-inserted by it
Requeued(q) == [i \in TaskIds |->
                  IF i \in SeqToSet(processing) /\ i \in SeqToSet(q.queue)
                  THEN requeues[i] + 1 ELSE requeues[i]]

Activities == {"schedule", "timeout", "cleanup"}

NoTimers == [active |-> [a \in Activities |-> 0], conts |-> <<>>]

InitExtra ==
  /\ routed = [task |-> [type |-> "", subtype |-> ""], ret |-> <<>>]
  /\ handled = NoRequest
  /\ broadcast = NoBroadcast
  /\ localCache = [k \in {} |-> 0]
  /\ discovered = NoDiscover
  /\ timers = NoTimers
  /\ probes = {}

Init ==
  /\ queue = <<>>
  /\ processing = <<>>
  /\ completed = {}
  /\ tasks = <<>>
  /\ config \in [max_concurrent_tasks : 1..MaxConc, task_retention_days : {1},
               max_retries : {MaxRetries}, default_timeout : {MaxTimeout}]
  /\ now = 1
  /\ failCalls = [i \in TaskIds |-> 0]
  /\ requeues = [i \in TaskIds |-> 0]
  /\ out = <<>>
  /\ terminalAt = [i \in TaskIds |-> Undef]
  /\ routeTable = initializeRoutes
  /\ agentLoads = [a \in {} |-> 0]
  /\ agentStatus = [a \in {} |-> TRUE]
  /\ executions = [e \in TaskIds \X Agents |-> 0]
  /\ circuitBreaker = [a \in {} |-> 0]
  /\ connectedAgents = {}
  /\ inflight = [c \in CallKinds \X Peers |-> 0]
  /\ cbHist = [a \in Peers |-> NoHist]
  /\ InitRate
  /\ InitRegistry
  /\ selected = [candidateAgents |-> <<>>, ret |-> NoAgent]
  /\ InitExtra

Enqueue ==
  \E p \in Priorities, mr \in RetryChoices, to \in Timeouts :
    /\ Len(tasks) < MaxTasks
    /\ LET r == enqueue(TQ, [type |-> "collect_news", subtype |-> "", priority |-> p,
                             max_retries |-> mr, timeout |-> to], now)
       IN /\ SetQ(r.q)
    /\ UNCHANGED <<xvars, bvars, gvars, rvars, cvars, config, now, hvars, svars>>

Dequeue ==
  LET r == dequeue(TQ, "agent", now, config)
  IN /\ SetQ(r.q)
     /\ UNCHANGED <<xvars, bvars, gvars, rvars, cvars, config, now, hvars, svars>>

StartTask ==
  \E id \in TaskIds :
    LET r == startTask(TQ, id, now)
    IN /\ SetQ(r.q)
       /\ UNCHANGED <<xvars, bvars, gvars, rvars, cvars, config, now, hvars, svars>>

CompleteTask ==
  \E id \in TaskIds :
    LET r == completeTask(TQ, id, "result", now)
    IN /\ SetQ(r.q)
       /\ UNCHANGED <<xvars, bvars, gvars, rvars, cvars, config, now, hvars, svars>>

FailTask ==
  \E id \in TaskIds :
    LET r == failTask(TQ, id, "error", now)
    IN /\ SetQ(r.q)
       /\ failCalls' = IF InProcessing(TQ, id)
                       THEN [failCalls EXCEPT ![id] = @ + 1] ELSE failCalls
       /\ requeues' = Requeued(r.q)
       /\ UNCHANGED <<xvars, bvars, gvars, rvars, cvars, config, now, out, svars>>

CancelTask ==
  \E id \in TaskIds :
    /\ SetQ(cancelTask(TQ, id, now))
    /\ UNCHANGED <<xvars, bvars, gvars, rvars, cvars, config, now, hvars, svars>>

CheckTimeouts ==
  LET q == checkTimeouts(TQ, now)
  IN /\ SetQ(q)
     /\ failCalls' = [i \in TaskIds |->
                        IF i \in SeqToSet(timedOutTasks(TQ, now))
                        THEN failCalls[i] + 1 ELSE failCalls[i]]
     /\ requeues' = Requeued(q)
     /\ UNCHANGED <<xvars, bvars, gvars, rvars, cvars, config, now, out, svars>>

Cleanup ==
  /\ SetQ(cleanup(TQ, now, config))
  /\ UNCHANGED <<xvars, bvars, gvars, rvars, cvars, config, now, hvars, svars>>

Tick ==
  /\ now < MaxTime
  /\ now' = now + 1
  /\ UNCHANGED <<xvars, bvars, gvars, rvars, cvars, qvars, config, hvars, svars>>

Next ==
  \/ Enqueue
  \/ Dequeue
  \/ StartTask
  \/ CompleteTask
  \/ FailTask
  \/ CancelTask
  \/ CheckTimeouts
  \/ Cleanup
  \/ Tick

Spec == Init /\ [][Next]_vars

\* ------------------------------ enqueue calls followed by repeated dequeue
TaskTypes == {"collect_news", "detect_risks"}

InitEnqDeq ==
  /\ queue = <<>>
  /\ processing = <<>>
  /\ completed = {}
  /\ tasks = <<>>
  /\ config \in [max_concurrent_tasks : 1..(MaxTasks + 1), task_retention_days : {1},
               max_retries : {MaxRetries}, default_timeout : {MaxTimeout}]
  /\ now = 1
  /\ failCalls = [i \in TaskIds |-> 0]
  /\ requeues = [i \in TaskIds |-> 0]
  /\ out = <<>>
  /\ terminalAt = [i \in TaskIds |-> Undef]
  /\ routeTable = initializeRoutes
  /\ agentLoads = [a \in {} |-> 0]
  /\ agentStatus = [a \in {} |-> TRUE]
  /\ executions = [e \in TaskIds \X Agents |-> 0]
  /\ circuitBreaker = [a \in {} |-> 0]
  /\ connectedAgents = {}
  /\ inflight = [c \in CallKinds \X Peers |-> 0]
  /\ cbHist = [a \in Peers |-> NoHist]
  /\ InitRate
  /\ InitRegistry
  /\ selected = [candidateAgents |-> <<>>, ret |-> NoAgent]
  /\ InitExtra

EnqueueFirst ==
  \E p \in LOW..CRITICAL, ty \in TaskTypes :
    /\ out = <<>>
  /\ terminalAt = [i \in TaskIds |-> Undef]
    /\ Len(tasks) < MaxTasks + 1
    /\ SetQ(enqueue(TQ, [type |-> ty, subtype |-> "", priority |-> p,
                         max_retries |-> MaxRetries, timeout |-> MaxTimeout], now).q)
    /\ UNCHANGED <<xvars, bvars, gvars, rvars, cvars, config, now, hvars, svars>>

DequeueNext ==
  LET r == dequeue(TQ, "agent", now, config)
  IN /\ r.ret # None
     /\ SetQ(r.q)
     /\ out' = Append(out, r.ret)
     /\ UNCHANGED <<xvars, bvars, gvars, rvars, cvars, config, now, failCalls, requeues, svars>>

NextEnqDeq ==
  \/ EnqueueFirst
  \/ DequeueNext

SpecEnqDeq == InitEnqDeq /\ [][NextEnqDeq]_vars

\* ------------------------------------------- TaskScheduler and its timers
SS == [q |-> TQ, loads |-> agentLoads, execs |-> executions, fc |-> failCalls, rq |-> requeues]

SetS(S) ==
  /\ SetQ(S.q)
  /\ agentLoads' = S.loads
  /\ executions' = S.execs
  /\ failCalls' = S.fc
  /\ requeues' = S.rq

\* inputs of the scheduler's public operations
RouteChoices == {<<"collector", "analyzer">>}
SchedTypes == {"collect_news", "unknown_type"}
\* taskData.priority as the caller gives it: 0 stands for an absent field
ExplicitPriorities == {0, LOW, CRITICAL}
StatusAgents == {"collector"}

CreateTask ==
  \E ty \in SchedTypes, mr \in RetryChoices, p \in ExplicitPriorities :
    /\ Len(tasks) < MaxTasks
    /\ SetQ(createTask(TQ, [type |-> ty, subtype |-> "", priority |-> p, tags |-> {},
                         max_retries |-> mr, timeout |-> 0],
                        now, config).q)
    /\ UNCHANGED <<xvars, bvars, gvars, rvars, cvars, config, now, hvars, svars>>

SchedCancelTask ==
  \E id \in TaskIds :
    /\ SetQ(cancelTask(TQ, id, now))
    /\ UNCHANGED <<xvars, bvars, gvars, rvars, cvars, config, now, hvars, svars>>

UpdateAgentStatus ==
  \E a \in StatusAgents, h \in BOOLEAN :
    /\ agentStatus' = updateAgentStatus(agentStatus, a, h)
    /\ UNCHANGED <<xvars, bvars, gvars, rvars, cvars, qvars, config, now, hvars, routeTable, agentLoads, executions>>

AddRoute ==
  \E ty \in {"unknown_type"}, ags \in RouteChoices :
    /\ routeTable' = addRoute(routeTable, ty, ags)
    /\ UNCHANGED <<xvars, bvars, gvars, rvars, cvars, qvars, config, now, hvars, agentLoads, agentStatus, executions>>

ScheduleTasks ==
  /\ SetS(scheduleTasks(SS, routeTable, agentStatus, now, config))
  /\ UNCHANGED <<xvars, bvars, gvars, rvars, cvars, config, now, out, routeTable, agentStatus>>

TimeoutSweep ==
  LET ids == timedOutTasks(TQ, now)
      q == checkTimeouts(TQ, now)
  IN /\ SetQ(q)
     /\ failCalls' = [i \in TaskIds |->
                        IF i \in SeqToSet(ids) THEN failCalls[i] + 1 ELSE failCalls[i]]
     /\ requeues' = Requeued(q)
     /\ UNCHANGED <<xvars, bvars, gvars, rvars, cvars, config, now, out, svars>>

CleanupSweep ==
  /\ SetQ(cleanup(TQ, now, config))
  /\ UNCHANGED <<xvars, bvars, gvars, rvars, cvars, config, now, hvars, svars>>

ExecutionDone ==
  \E id \in TaskIds, a \in Agents :
    /\ executions[<<id, a>>] > 0
    /\ SetS(executionDone(SS, id, a, now))
    /\ UNCHANGED <<xvars, bvars, gvars, rvars, cvars, config, now, out, routeTable, agentStatus>>

NextSched ==
  \/ CreateTask
  \/ SchedCancelTask
  \/ UpdateAgentStatus
  \/ AddRoute
  \/ ScheduleTasks
  \/ TimeoutSweep
  \/ CleanupSweep
  \/ ExecutionDone
  \/ Tick

SpecSched == Init /\ [][NextSched]_vars

\* setInterval keeps firing the scheduling tick and the timeout sweep, and the
\* setTimeout of every simulateTaskExecution call fires
InitSchedFair ==
  /\ Init
  /\ config.max_concurrent_tasks = 1

\* createTask without max_retries, timeout or priority in taskData
CreateDefaultTask ==
  \E ty \in SchedTypes :
    /\ Len(tasks) < MaxTasks
    /\ SetQ(createTask(TQ, [type |-> ty, subtype |-> "", priority |-> 0, tags |-> {},
                         max_retries |-> 0, timeout |-> 0],
                        now, config).q)
    /\ UNCHANGED <<xvars, bvars, gvars, rvars, cvars, config, now, hvars, svars>>

NextSchedFair ==
  \/ CreateDefaultTask
  \/ UpdateAgentStatus
  \/ ScheduleTasks
  \/ TimeoutSweep
  \/ ExecutionDone
  \/ Tick

SpecSchedFair ==
  /\ InitSchedFair
  /\ [][NextSchedFair]_vars
  /\ WF_vars(ScheduleTasks)
  /\ WF_vars(TimeoutSweep)
  /\ WF_vars(ExecutionDone)

\* ------------------------------ the scheduler's timers on the event loop
\* The callbacks of start() are macrotasks: the event loop runs one only when
\* no continuation is runnable.  An async function runs synchronously up to an
\* await; what follows the await is a continuation, runnable at once when the
\* awaited promise is already settled and otherwise when the I/O or timer
\* that settles it has completed.
AwaitSuspends_io(call) == call = "scheduleNextTask"

\* whether the promise awaited at the call is settled by a later macrotask:
\* dequeue, startTask and failTask have no await in their bodies, and
\* scheduleNextTask and assignTaskToAgent await nothing else
AwaitSuspends(call) == FALSE

Drained == \A k \in 1..Len(timers.conts) : timers.conts[k].io

Suspend(T, act, left, ids, call) ==
  [T EXCEPT !.conts = Append(@, [act |-> act, left |-> left, ids |-> ids,
                                 io |-> AwaitSuspends(call)])]

Started(T, act) == [T EXCEPT !.active[act] = @ + 1]

Returned(T, act) == [T EXCEPT !.active[act] = @ - 1]

\* setInterval(() => this.scheduleTasks(), 1000), up to its first await
TimerSchedule ==
  /\ Drained
  /\ timers.active["schedule"] < MaxActive
  /\ LET queueStatus == getQueueStatus(TQ, config)
         availableSlots == queueStatus.max_concurrent - queueStatus.processing
     IN IF queueStatus.processing >= queueStatus.max_concurrent
        THEN SetS(SS) /\ timers' = timers
        ELSE /\ SetS(scheduleNextTask(SS, routeTable, agentStatus, now, config))
             /\ timers' = Suspend(Started(timers, "schedule"), "schedule",
                                  availableSlots - 1, <<>>, "scheduleNextTask")
  /\ UNCHANGED <<xNotTimers, bvars, gvars, rvars, cvars, config, now, out, routeTable,
                 agentStatus>>

\* setInterval(() => this.taskQueue.checkTimeouts(), 5000), up to its first await
TimerTimeout ==
  /\ Drained
  /\ timers.active["timeout"] < MaxActive
  /\ LET ids == timedOutTasks(TQ, now)
     IN IF ids = <<>>
        THEN SetS(SS) /\ timers' = timers
        ELSE /\ SetS(SchedFail(SS, Head(ids), "Task timeout", now))
             /\ timers' = Suspend(Started(timers, "timeout"), "timeout", 0, Tail(ids),
                                  "failTask")
  /\ UNCHANGED <<xNotTimers, bvars, gvars, rvars, cvars, config, now, out, routeTable,
                 agentStatus>>

\* setInterval(() => this.taskQueue.cleanup(), cleanup_interval): cleanup has
\* no await and returns within the callback
TimerCleanup ==
  /\ Drained
  /\ CleanupSweep

\* a continuation runs: the first runnable one, or when none is runnable one
\* whose I/O has completed
Resume ==
  \E k \in 1..Len(timers.conts) :
    LET c == timers.conts[k]
        T0 == [timers EXCEPT !.conts = RemoveAt(@, k)]
    IN /\ Drained \/ (~c.io /\ \A j \in 1..(k - 1) : timers.conts[j].io)
       /\ IF c.act = "schedule"
          THEN IF c.left = 0
               THEN SetS(SS) /\ timers' = Returned(T0, "schedule")
               ELSE /\ SetS(scheduleNextTask(SS, routeTable, agentStatus, now, config))
                    /\ timers' = Suspend(T0, "schedule", c.left - 1, <<>>, "scheduleNextTask")
          ELSE IF c.ids = <<>> \/ failTask(TQ, Head(c.ids), "Task timeout", now).thrown
               THEN SetS(SS) /\ timers' = Returned(T0, "timeout")
               ELSE /\ SetS(SchedFail(SS, Head(c.ids), "Task timeout", now))
                    /\ timers' = Suspend(T0, "timeout", 0, Tail(c.ids), "failTask")
       /\ UNCHANGED <<xNotTimers, bvars, gvars, rvars, cvars, config, now, out, routeTable,
                      agentStatus>>

\* other macrotasks: a createTask call and the timer of an execution
CreateTaskTurn ==
  /\ Drained
  /\ CreateDefaultTask

ExecutionTurn ==
  /\ Drained
  /\ ExecutionDone

NextTimers ==
  \/ CreateTaskTurn
  \/ TimerSchedule
  \/ TimerTimeout
  \/ TimerCleanup
  \/ Resume
  \/ ExecutionTurn
  \/ Tick

SpecTimers == Init /\ [][NextTimers]_vars

\* ------------------------------------- the communication protocol's handlers
CC == [cb |-> circuitBreaker, hist |-> cbHist]

SetC(C) ==
  /\ circuitBreaker' = C.cb
  /\ cbHist' = C.hist

tvars0 == <<queue, processing, completed, tasks, terminalAt, config, failCalls, requeues, out,
            routeTable, agentLoads, agentStatus, executions, services, regEvents, selected>>

tvars == <<tvars0, xvars>>

\* the counters of the source are unbounded; the model stops before the caps
WithinCaps(C) ==
  /\ \A a \in DOMAIN C.cb :
       C.cb[a].failures <= MaxFailures /\ C.cb[a].success_count <= MaxSuccesses
  /\ \A a \in DOMAIN C.hist :
       C.hist[a].fails <= MaxFailures /\ C.hist[a].succs <= MaxSuccesses

InflightTotal == inflight[<<"message", "collector">>] + inflight[<<"message", "processor">>]
                 + inflight[<<"batch", "collector">>] + inflight[<<"batch", "processor">>]

InitComm ==
  /\ Init
  /\ config.max_concurrent_tasks = 1

HandleAgentRegistration ==
  \E a \in Peers :
    /\ connectedAgents' = connectedAgents \cup {a}
    /\ circuitBreaker' = initializeCircuitBreakerForAgent(circuitBreaker, a, CBConfig)
    /\ cbHist' = [cbHist EXCEPT ![a] = [NoHist EXCEPT !.owed = cbHist[a].owed]]
    /\ UNCHANGED <<rvars, tvars, now, inflight>>

HandleAgentUnregistration ==
  \E a \in Peers :
    /\ connectedAgents' = connectedAgents \ {a}
    /\ circuitBreaker' = MapDelete(circuitBreaker, a)
    /\ rateLimiter' = MapDelete(rateLimiter, a)
    /\ UNCHANGED <<admittedAt, tvars, now, inflight, cbHist>>

SendMessage ==
  \E target \in Peers \cup {Stranger} :
    LET r == sendMessage(circuitBreaker, target, now, CBConfig)
    IN /\ r.outcome = "attempted" => InflightTotal < MaxInflight
       /\ circuitBreaker' = r.cb
       /\ cbHist' = LET h == HistPromote(cbHist, circuitBreaker, r.cb, "check")
                     IN IF r.outcome = "attempted"
                        THEN [h EXCEPT ![target].owed = @ + 1] ELSE h
       /\ inflight' = IF r.outcome = "attempted"
                       THEN [inflight EXCEPT ![<<"message", target>>] = @ + 1]
                       ELSE inflight
       /\ UNCHANGED <<rvars, tvars, now, connectedAgents>>

SendBatchToAgent ==
  \E target \in Peers \cup {Stranger} :
    LET r == sendBatchToAgent(circuitBreaker, target, now, CBConfig)
    IN /\ r.outcome = "attempted" => InflightTotal < MaxInflight
       /\ circuitBreaker' = r.cb
       /\ cbHist' = LET h == HistPromote(cbHist, circuitBreaker, r.cb, "check")
                     IN IF r.outcome = "attempted"
                        THEN [h EXCEPT ![target].owed = @ + 1] ELSE h
       /\ inflight' = IF r.outcome = "attempted"
                       THEN [inflight EXCEPT ![<<"batch", target>>] = @ + 1]
                       ELSE inflight
       /\ UNCHANGED <<rvars, tvars, now, connectedAgents>>

FetchResolves ==
  \E k \in CallKinds, target \in Peers, outcome \in FetchOutcomes :
    /\ inflight[<<k, target>>] > 0
    /\ LET C == ReportAll(CC, target, reportsOfFetch(outcome), now, CBConfig)
       IN /\ WithinCaps(C)
          /\ SetC(C)
    /\ inflight' = [inflight EXCEPT ![<<k, target>>] = @ - 1]
    /\ UNCHANGED <<rvars, tvars, now, connectedAgents>>

HandleMessage ==
  \E from \in Peers, handlerThrows \in BOOLEAN :
    LET C == handleMessage(CC, from, handlerThrows, now, CBConfig)
    IN /\ WithinCaps(C)
       /\ SetC(C)
       /\ UNCHANGED <<rvars, tvars, now, connectedAgents, inflight>>

BatchMessages ==
  UNION {[1..n -> [from : Peers, throws : BOOLEAN]] : n \in 1..MaxBatch}

HandleBatchMessages ==
  \E messages \in BatchMessages :
    LET C == handleBatchMessages(CC, messages, now, CBConfig)
    IN /\ WithinCaps(C)
       /\ SetC(C)
       /\ UNCHANGED <<rvars, tvars, now, connectedAgents, inflight>>

RecoverySweep ==
  LET cb2 == checkCircuitBreakerRecovery(circuitBreaker, now, CBConfig)
  IN /\ circuitBreaker' = cb2
     /\ cbHist' = HistPromote(cbHist, circuitBreaker, cb2, "sweep")
     /\ UNCHANGED <<rvars, tvars, now, connectedAgents, inflight>>

NextComm ==
  \/ HandleAgentRegistration
  \/ HandleAgentUnregistration
  \/ SendMessage
  \/ SendBatchToAgent
  \/ FetchResolves
  \/ HandleMessage
  \/ HandleBatchMessages
  \/ RecoverySweep
  \/ Tick

SpecComm == InitComm /\ [][NextComm]_vars

\* --------------------------------------- inbound requests and the rate limiter
\* the :agentName of DELETE /register/:agentName is any path segment
UnregisterNames == Clients \cup {"collector"}

Admitted(c) == [admittedAt EXCEPT ![c][now] = @ + 1]

\* a request to a route whose handler leaves the rate limiter alone
InboundRequest ==
  \E c \in Clients :
    LET r == rateLimitMiddleware(rateLimiter, c, now, RLConfig)
    IN /\ r.admitted => admittedAt[c][now] < MaxAdmitted
       /\ rateLimiter' = r.rl
       /\ admittedAt' = IF r.admitted THEN Admitted(c) ELSE admittedAt
       /\ UNCHANGED <<cvars, tvars, now>>

\* DELETE /register/:agentName: the middleware, then handleAgentUnregistration
UnregisterRequest ==
  \E c \in Clients, agentName \in UnregisterNames :
    LET r == rateLimitMiddleware(rateLimiter, c, now, RLConfig)
    IN /\ r.admitted => admittedAt[c][now] < MaxAdmitted
       /\ rateLimiter' = IF r.admitted THEN MapDelete(r.rl, agentName) ELSE r.rl
       /\ admittedAt' = IF r.admitted THEN Admitted(c) ELSE admittedAt
       /\ connectedAgents' = IF r.admitted THEN connectedAgents \ {agentName}
                              ELSE connectedAgents
       /\ circuitBreaker' = IF r.admitted THEN MapDelete(circuitBreaker, agentName)
                             ELSE circuitBreaker
       /\ UNCHANGED <<inflight, cbHist, tvars, now>>

NextRate ==
  \/ InboundRequest
  \/ UnregisterRequest
  \/ Tick

SpecRate == Init /\ [][NextRate]_vars

\* ------------------------------------------ ServiceRegistry and its sweep
RR == [services |-> services, events |-> regEvents]

SetR(R) ==
  /\ services' = R.services
  /\ regEvents' = R.events

nvars0 == <<queue, processing, completed, tasks, terminalAt, config, failCalls, requeues, out,
            routeTable, agentLoads, agentStatus, executions, selected>>

nvars == <<nvars0, xvars>>

Register ==
  \E service \in ServiceInputs :
    LET R == register(RR, service, now)
    IN /\ SetR(R)
       /\ localCache' = Detach(localCache, {R.ret} \cap DOMAIN services, services, now)
       /\ probes' = DetachProbes(probes, {R.ret} \cap DOMAIN services, services, now,
                                 "replaced")
       /\ UNCHANGED <<rvars, cvars, nvars0, xNotCache, now>>

Unregister ==
  \E serviceId \in ServiceIds :
    LET R == unregister(RR, serviceId)
    IN /\ SetR(R)
       /\ localCache' = Detach(localCache, {serviceId} \cap DOMAIN services, services, now)
       /\ probes' = DetachProbes(probes, {serviceId} \cap DOMAIN services, services, now,
                                 "unregistered")
       /\ UNCHANGED <<rvars, cvars, nvars0, xNotCache, now>>

Heartbeat ==
  \E serviceId \in ServiceIds, status \in {"none", "healthy", "unhealthy"} :
    LET R == heartbeat(RR, serviceId, status, now)
    IN /\ SetR(R)
       /\ UNCHANGED <<rvars, cvars, nvars, now>>

\* the cleanup_interval timer of startPeriodicTasks
ExpirySweep ==
  /\ SetR(cleanupExpiredServices(RR, now, RegistryConfig))
  /\ localCache' = Detach(localCache, expiredServices(services, now, RegistryConfig),
                          services, now)
  /\ probes' = DetachProbes(probes, expiredServices(services, now, RegistryConfig),
                            services, now, "expired")
  /\ UNCHANGED <<rvars, cvars, nvars0, xNotCache, now>>

\* a probe started by performHealthChecks settles; the instance it was started
\* for is the one the registry holds under its id
HealthCheckSettles ==
  \E id \in DOMAIN services, outcome \in ProbeOutcomes :
    LET R == checkServiceHealth(RR, services[id], outcome, now)
    IN /\ RegistryConfig.enable_health_checks
       /\ services[id].health_check_url # ""
       /\ services' = R.services
       /\ regEvents' = [R.events EXCEPT !.probed[id] = now]
       /\ UNCHANGED <<rvars, cvars, nvars, now>>

NextRegistry ==
  \/ Register
  \/ Unregister
  \/ Heartbeat
  \/ HealthCheckSettles
  \/ ExpirySweep
  \/ Tick

SpecRegistry == Init /\ [][NextRegistry]_vars

\* ------------------------------------- ServiceDiscovery over the registry
DiscoverQueries == {[name |-> "", capability |-> "", status |-> ""]}

\* the services that register while discovery is in use
DiscoveryInputs == {i \in ServiceInputs : i.health_check_url = ""}

RegisterDiscoverable ==
  \E service \in DiscoveryInputs :
    LET R == register(RR, service, now)
    IN /\ SetR(R)
       /\ localCache' = Detach(localCache, {R.ret} \cap DOMAIN services, services, now)
       /\ probes' = DetachProbes(probes, {R.ret} \cap DOMAIN services, services, now,
                                 "replaced")
       /\ UNCHANGED <<rvars, cvars, nvars0, xNotCache, now>>

Discover ==
  \E q \in DiscoverQueries, useCache \in BOOLEAN :
    LET r == discover(localCache, services, q, useCache, now, CacheTimeout)
    IN /\ localCache' = r.cache
       /\ discovered' = [key |-> generateCacheKey(q), at |-> now,
                         ret |-> [i \in 1..Len(r.ret) |->
                                    [id |-> r.ret[i].id, dropped |-> r.ret[i].frozen # <<>>,
                                     since |-> r.ret[i].since]],
                         fromCache |-> r.fromCache, thrown |-> r.thrown,
                         storedAt |-> r.storedAt]
       /\ UNCHANGED <<xNotDiscovery, gvars, rvars, cvars, nvars0, now>>

NextDiscovery ==
  \/ RegisterDiscoverable
  \/ Unregister
  \/ Heartbeat
  \/ ExpirySweep
  \/ Discover
  \/ Tick

InitDiscovery ==
  /\ Init
  /\ config.max_concurrent_tasks = 1

SpecDiscovery == InitDiscovery /\ [][NextDiscovery]_vars

\* ------------------------------------- health probes that settle at any time
\* the health_check_interval timer of startPeriodicTasks
PerformHealthChecks ==
  /\ probes' = performHealthChecks(probes, services, RegistryConfig)
  /\ Cardinality(probes') <= MaxProbes
  /\ UNCHANGED <<gvars, rvars, cvars, nvars0, xNotProbes, now>>

\* the fetch of a checkServiceHealth call settles; service is the object the
\* call was made with, whether or not the registry still holds it
ProbeSettles ==
  \E p \in probes, outcome \in ProbeOutcomes :
    LET R == checkServiceHealth(RR, Deref(p, services), outcome, now)
    IN /\ SetR(R)
       /\ probes' = probes \ {p}
       /\ UNCHANGED <<rvars, cvars, nvars0, xNotProbes, now>>

NextProbes ==
  \/ Register
  \/ Unregister
  \/ Heartbeat
  \/ ExpirySweep
  \/ PerformHealthChecks
  \/ ProbeSettles
  \/ Tick

SpecProbes == InitDiscovery /\ [][NextProbes]_vars

\* ------------------------------------------------ LoadBalancer called directly
LBAgents == {"collector", "analyzer", "processor"}

CandidateLists == UNION {[1..n -> LBAgents] : n \in 0..MaxCandidates}

\* the lists the recorded calls are made with: each agent at most once
RoutedLists == {c \in CandidateLists : \A i, j \in 1..Len(c) : c[i] = c[j] => i = j}

qsvars == <<queue, processing, completed, tasks, terminalAt, config, failCalls, requeues, out,
            routeTable, executions, xvars>>

LBUpdateAgentLoad ==
  \E a \in LBAgents, load \in 0..MaxLoad :
    /\ agentLoads' = updateAgentLoad(agentLoads, a, load)
    /\ UNCHANGED <<agentStatus, selected, qsvars, gvars, rvars, cvars, now>>

LBUpdateAgentStatus ==
  \E a \in LBAgents, isHealthy \in BOOLEAN :
    /\ agentStatus' = updateAgentStatus(agentStatus, a, isHealthy)
    /\ UNCHANGED <<agentLoads, selected, qsvars, gvars, rvars, cvars, now>>

LBResetAgentLoad ==
  \E a \in LBAgents :
    /\ agentLoads' = resetAgentLoad(agentLoads, a)
    /\ UNCHANGED <<agentStatus, selected, qsvars, gvars, rvars, cvars, now>>

LBRemoveAgent ==
  \E a \in LBAgents :
    /\ agentLoads' = MapDelete(agentLoads, a)
    /\ agentStatus' = MapDelete(agentStatus, a)
    /\ UNCHANGED <<selected, qsvars, gvars, rvars, cvars, now>>

LBSelectBestAgent ==
  \E candidateAgents \in RoutedLists :
    /\ selected' = [candidateAgents |-> candidateAgents,
                    ret |-> selectBestAgent(candidateAgents, agentLoads, agentStatus)]
    /\ UNCHANGED <<agentLoads, agentStatus, qsvars, gvars, rvars, cvars, now>>

NextBalancer ==
  \/ LBUpdateAgentLoad
  \/ LBUpdateAgentStatus
  \/ LBResetAgentLoad
  \/ LBRemoveAgent
  \/ LBSelectBestAgent

SpecBalancer == Init /\ [][NextBalancer]_vars

\* ------------------------------- the two message endpoints, with validation
\* rate_limit.enabled is false in this configuration: the rate limiter is
\* not installed in front of the routes
Message(from, type, action, timestamp, throws) ==
  [from |-> from, to |-> "coordinator", type |-> type, action |-> action,
   timestamp |-> timestamp, message_id |-> "m-1", throws |-> throws]

Timestamps == 0..(MaxTime + ReplayWindow)

\* what is posted to /message
PostedMessages ==
  {Message("collector", "request", "task", ts, FALSE) : ts \in Timestamps \ {0}}
  \cup {Message("processor", "event", "task", 2, TRUE),
        Message("collector", "bogus", "task", 2, FALSE),
        Message("collector", "event", "", 2, FALSE),
        Message("collector", "response", "task", 0, FALSE)}

\* what the entries of a posted batch are
BatchEntries ==
  {Message("collector", "request", "task", 2, FALSE),
   Message("collector", "request", "task", MaxTime + ReplayWindow, FALSE),
   Message("processor", "bogus", "task", 2, TRUE)}

PostedBatches ==
  UNION {[1..n -> BatchEntries] : n \in 1..BatchLimit}
  \cup {<<Message("collector", "request", "task", 2, FALSE),
          Message("collector", "request", "", 2, FALSE)>>}
  \cup [1..(BatchLimit + 1) -> {Message("collector", "request", "task", 2, FALSE),
                                Message("processor", "event", "task", 2, TRUE)}]

RequestIds == {"req-1"}

PostMessage ==
  \E message \in PostedMessages, requestId \in RequestIds :
    LET r == postMessage(CC, message, requestId, now, CBConfig)
    IN /\ WithinCaps(r.C)
       /\ SetC(r.C)
       /\ handled' = [route |-> "message", at |-> now, body |-> <<message>>, size |-> 1,
                      res |-> r.res, dispatched |-> r.dispatched]
       /\ UNCHANGED <<xNotHandled, rvars, tvars0, now, connectedAgents, inflight>>

PostMessagesBatch ==
  \E messages \in PostedBatches, requestId \in RequestIds :
    LET r == postMessagesBatch(CC, messages, requestId, now, CBConfig)
    IN /\ WithinCaps(r.C)
       /\ SetC(r.C)
       /\ handled' = [route |-> "batch", at |-> now, body |-> <<>>, size |-> Len(messages),
                      res |-> r.res, dispatched |-> r.dispatched]
       /\ UNCHANGED <<xNotHandled, rvars, tvars0, now, connectedAgents, inflight>>

NextInbound ==
  \/ HandleAgentRegistration
  \/ PostMessage
  \/ PostMessagesBatch
  \/ RecoverySweep
  \/ Tick

SpecInbound == InitComm /\ [][NextInbound]_vars

\* ----------------------------------------------------------- broadcastMessage
\* a peer with a port, a name without one, and the instance's own name
BroadcastNames == {"collector", Stranger, SelfName}

\* the connected-agents table is held as its key set: the order in which its
\* keys are iterated is any order
KeyOrders(keys) ==
  {o \in [1..Cardinality(keys) -> keys] : \A i, j \in 1..Cardinality(keys) : o[i] = o[j] => i = j}

\* POST /register with a valid agent status
RegisterAgent ==
  \E a \in BroadcastNames :
    /\ connectedAgents' = connectedAgents \cup {a}
    /\ circuitBreaker' = initializeCircuitBreakerForAgent(circuitBreaker, a, CBConfig)
    /\ cbHist' = IF a \in DOMAIN cbHist
                 THEN [cbHist EXCEPT ![a] = [NoHist EXCEPT !.owed = cbHist[a].owed]]
                 ELSE cbHist
    /\ UNCHANGED <<rvars, tvars, now, inflight>>

UnregisterAgent ==
  \E a \in BroadcastNames :
    /\ connectedAgents' = connectedAgents \ {a}
    /\ circuitBreaker' = MapDelete(circuitBreaker, a)
    /\ rateLimiter' = MapDelete(rateLimiter, a)
    /\ UNCHANGED <<admittedAt, tvars, now, inflight, cbHist>>

\* one broadcast at a time
BroadcastMessage ==
  \E keys \in KeyOrders(connectedAgents) :
    LET r == sendBatchLoop(CC, broadcastTargets(keys, SelfName), <<>>, now, CBConfig)
    IN /\ broadcast.phase # "awaiting"
       /\ WithinCaps(r.C)
       /\ SetC(r.C)
       /\ broadcast' = [phase |-> r.phase, keys |-> connectedAgents, targets |-> r.targets,
                        results |-> r.results]
       /\ UNCHANGED <<xNotBroadcast, rvars, tvars0, now, connectedAgents, inflight>>

BroadcastFetchSettles ==
  \E outcome \in FetchOutcomes :
    LET r == sendBatchResume(CC, broadcast.targets, broadcast.results, outcome, now, CBConfig)
    IN /\ broadcast.phase = "awaiting"
       /\ WithinCaps(r.C)
       /\ SetC(r.C)
       /\ broadcast' = [broadcast EXCEPT !.phase = r.phase, !.targets = r.targets,
                                         !.results = r.results]
       /\ UNCHANGED <<xNotBroadcast, rvars, tvars0, now, connectedAgents, inflight>>

NextBroadcast ==
  \/ RegisterAgent
  \/ UnregisterAgent
  \/ BroadcastMessage
  \/ BroadcastFetchSettles
  \/ RecoverySweep
  \/ Tick

SpecBroadcast == InitComm /\ [][NextBroadcast]_vars

\* -------------------------------------------------- TaskRouter called directly
RouterTypes == {"collect_news", "detect_risks", "unknown_type"}

\* "" stands for a task without subtype
Subtypes == {"", "rss", "custom"}

RouterAgents == {"collector", "analyzer"}

RouterLists == UNION {[1..n -> RouterAgents] : n \in 0..MaxRoute}

rtvars == <<queue, processing, completed, tasks, terminalAt, config, failCalls, requeues, out,
            agentLoads, agentStatus, executions, selected>>

RouterAddRoute ==
  \E taskType \in RouterTypes, agents \in RouterLists :
    /\ routeTable' = addRoute(routeTable, taskType, agents)
    /\ UNCHANGED <<xvars, rtvars, gvars, rvars, cvars, now>>

RouterRemoveRoute ==
  \E taskType \in RouterTypes :
    /\ routeTable' = removeRoute(routeTable, taskType)
    /\ UNCHANGED <<xvars, rtvars, gvars, rvars, cvars, now>>

RouterRouteTask ==
  \E ty \in RouterTypes, st \in Subtypes :
    LET task == [type |-> ty, subtype |-> st]
    IN /\ routed' = [task |-> task, ret |-> routeTask(routeTable, task)]
       /\ UNCHANGED <<xNotRouted, routeTable, rtvars, gvars, rvars, cvars, now>>

NextRouter ==
  \/ RouterAddRoute
  \/ RouterRemoveRoute
  \/ RouterRouteTask

SpecRouter == Init /\ [][NextRouter]_vars

\* ----------------------------------------------------------------- claims
Max(a, b) == IF a >= b THEN a ELSE b

Created == 1..Len(tasks)

Pending == SeqToSet(queue)

Processing == SeqToSet(processing)

\* C1: the processing set never holds more than max_concurrent_tasks tasks, and
\* when it holds exactly that many a dequeue returns none and changes nothing,
\* also when tasks are pending.
C1_ConcurrencyCeiling ==
  /\ Len(processing) <= config.max_concurrent_tasks
  /\ Len(processing) = config.max_concurrent_tasks
       => dequeue(TQ, "agent", now, config) = [q |-> TQ, ret |-> None]

C1_Witness ==
  /\ Len(processing) = config.max_concurrent_tasks
  /\ Len(queue) > 0

\* C2: after enqueue calls only, repeated dequeue returns the tasks in
\* non-increasing priority order, equal priorities in creation order, and never
\* leaves behind a task that should have come out earlier; with collect_news
\* at priority 2, detect_risks at priority 3 and one slot, detect_risks is first.
C2_PriorityOrder ==
  /\ \A i, j \in 1..Len(out) :
       i < j => /\ tasks[out[i]].priority >= tasks[out[j]].priority
                /\ tasks[out[i]].priority = tasks[out[j]].priority => out[i] < out[j]
  /\ \A i \in 1..Len(out) : \A j \in Pending :
       /\ tasks[out[i]].priority >= tasks[j].priority
       /\ tasks[out[i]].priority = tasks[j].priority => out[i] < j
  /\ ( /\ config.max_concurrent_tasks = 1
       /\ Len(tasks) = 2
       /\ \E a, b \in Created :
            /\ tasks[a].type = "collect_news" /\ tasks[a].priority = NORMAL
            /\ tasks[b].type = "detect_risks" /\ tasks[b].priority = HIGH
       /\ Len(out) >= 1 )
       => tasks[out[1]].type = "detect_risks"

C2_Witness ==
  /\ Len(out) = 3
  /\ tasks[1].priority = tasks[3].priority
  /\ tasks[2].priority > tasks[1].priority

\* C3: whenever dequeue succeeds, the task it returns has the highest priority
\* of the pending collection and, among those, the earliest creation.
C3_DequeueHighestFirst ==
  LET r == dequeue(TQ, "agent", now, config)
  IN r.ret # None =>
       \A j \in Pending :
         /\ tasks[r.ret].priority >= tasks[j].priority
         /\ tasks[r.ret].priority = tasks[j].priority => r.ret <= j

\* C4 as stated: a task is FAILED after exactly max_retries failTask calls and
\* max_retries - 1 re-insertions, also for max_retries = 0.
C4_FailedAfterExactlyN ==
  \A i \in Created :
    tasks[i].status = "failed" =>
      /\ failCalls[i] = tasks[i].max_retries
      /\ requeues[i] = tasks[i].max_retries - 1

\* C4 amended: a task is FAILED after exactly max(max_retries, 1) failTask calls
\* and max(max_retries, 1) - 1 re-insertions; it is then in the completed store
\* (until cleanup purges it) with the error recorded, and is never pending
\* again; before that every failTask call re-inserted it.
C4_RetryExhaustion ==
  \A i \in Created :
    /\ tasks[i].status = "failed" =>
         /\ failCalls[i] = Max(tasks[i].max_retries, 1)
         /\ requeues[i] = Max(tasks[i].max_retries, 1) - 1
         /\ tasks[i].error # ""
         /\ i \notin Pending /\ i \notin Processing
         /\ i \in completed \/ tasks[i].completed_at < now - config.task_retention_days
    /\ tasks[i].status \in {"pending", "assigned", "running"} =>
         /\ failCalls[i] < Max(tasks[i].max_retries, 1)
         /\ requeues[i] = failCalls[i]

C4_Witness ==
  \E i, j \in Created :
    /\ tasks[i].status = "failed" /\ tasks[i].max_retries = 0
    /\ tasks[j].status = "failed" /\ tasks[j].max_retries = MaxRetries
    /\ requeues[j] = MaxRetries - 1

RoutingError == "No capable agents available"

\* C5: a task failed for want of a route is FAILED at once: it is in the
\* completed store with the routing error, its retry_count is unchanged and it
\* is never pending again.
C5_RoutingFailureImmediate ==
  \A i \in Created :
    tasks[i].error = RoutingError =>
      /\ tasks[i].status = "failed"
      /\ tasks[i].retry_count = 0
      /\ i \notin Pending /\ i \notin Processing

\* C6: checkTimeouts fails every RUNNING task whose elapsed time exceeds its
\* timeout exactly as failTask(id, 'Task timeout') does (retry_count + 1, then
\* pending again or FAILED), and leaves every other processing task as it is.
C6_TimeoutSweep ==
  LET q2 == checkTimeouts(TQ, now)
  IN \A i \in Processing :
       IF tasks[i].status = "running" /\ now - tasks[i].started_at > tasks[i].timeout
       THEN /\ q2.tasks[i] = failTask(TQ, i, "Task timeout", now).q.tasks[i]
            /\ q2.tasks[i].retry_count = tasks[i].retry_count + 1
            /\ q2.tasks[i].error = "Task timeout"
            /\ i \notin SeqToSet(q2.processing)
            /\ \/ q2.tasks[i].status = "pending" /\ i \in SeqToSet(q2.queue)
               \/ q2.tasks[i].status = "failed" /\ i \in q2.completed
       ELSE /\ q2.tasks[i] = tasks[i]
            /\ i \in SeqToSet(q2.processing)

C6_Witness ==
  \E i, j \in Created :
    /\ tasks[i].error = "Task timeout" /\ tasks[i].status = "pending"
    /\ tasks[i].retry_count = 1
    /\ j \in Processing /\ tasks[j].status = "running"
    /\ now - tasks[j].started_at = tasks[j].timeout


Breakers == DOMAIN circuitBreaker

OpenInWindow(p) ==
  /\ p \in Breakers
  /\ circuitBreaker[p].state = "OPEN"
  /\ now - circuitBreaker[p].last_failure_time <= RecoveryTimeout

\* C7: failure_threshold failures in a row open a CLOSED breaker; an OPEN
\* breaker rejects the admission check until recovery_timeout has elapsed since
\* the last failure; the first check after that makes it HALF_OPEN and admits;
\* three successes in a row after that close it.
C7_BreakerOpensAndRecovers ==
  \A p \in Breakers :
    LET b == circuitBreaker[p]
        h == cbHist[p]
        failed == updateCircuitBreaker(circuitBreaker, p, FALSE, now, CBConfig)
        succeeded == updateCircuitBreaker(circuitBreaker, p, TRUE, now, CBConfig)
        check == isCircuitBreakerOpen(circuitBreaker, p, now, CBConfig)
    IN /\ h.fails >= FailureThreshold => b.state # "CLOSED"
       /\ (b.state = "CLOSED" /\ h.fails = FailureThreshold - 1) => failed[p].state = "OPEN"
       /\ OpenInWindow(p) => check = [cb |-> circuitBreaker, open |-> TRUE]
       /\ (b.state = "OPEN" /\ ~OpenInWindow(p)) =>
            /\ ~check.open
            /\ check.cb[p].state = "HALF_OPEN"
       /\ b.state = "HALF_OPEN" => h.succs < CloseAfter
       /\ (b.state = "HALF_OPEN" /\ h.succs = CloseAfter - 1) => succeeded[p].state = "CLOSED"

C7_Witness ==
  \E p \in Breakers :
    /\ circuitBreaker[p].state = "CLOSED"
    /\ cbHist[p].via = "check"
    /\ cbHist[p].succs = CloseAfter

\* C8: every peer with a known address has a breaker once it has been called:
\* failure_threshold failed sendMessage calls in a row leave its breaker OPEN
\* and the next sendMessage inside the recovery window is rejected.
C8_BreakerForEveryCalledPeer ==
  \A p \in Peers :
    cbHist[p].sendFails >= FailureThreshold =>
      /\ p \in Breakers
      /\ circuitBreaker[p].state # "CLOSED"
      /\ now - circuitBreaker[p].last_failure_time <= RecoveryTimeout
           => sendMessage(circuitBreaker, p, now, CBConfig).outcome = "rejected"

\* C9: a sendMessage or sendBatchToAgent to a peer whose breaker is OPEN inside
\* its recovery window is rejected before the fetch and leaves the breaker as
\* it is; a call is attempted only if the admission check admits it; every
\* attempted call makes exactly one report when it resolves.
C9_OutboundFastFail ==
  \A p \in Peers :
    LET m == sendMessage(circuitBreaker, p, now, CBConfig)
        b == sendBatchToAgent(circuitBreaker, p, now, CBConfig)
    IN /\ OpenInWindow(p) =>
            /\ m = [cb |-> circuitBreaker, outcome |-> "rejected"]
            /\ b = [cb |-> circuitBreaker, outcome |-> "rejected"]
       /\ m.outcome = "attempted" => ~OpenInWindow(p)
       /\ b.outcome = "attempted" => ~OpenInWindow(p)
       /\ cbHist[p].owed = inflight[<<"message", p>>] + inflight[<<"batch", p>>]

C9_Witness ==
  \E p \in Peers :
    /\ OpenInWindow(p)
    /\ cbHist[p].sendFails >= FailureThreshold
    /\ cbHist[p].owed = 0

\* C10: the background sweep makes HALF_OPEN, with success_count 0, exactly the
\* breakers that are OPEN with recovery_timeout elapsed since last_failure_time,
\* and changes no other breaker.
C10_SweepRecovers ==
  LET cb2 == checkCircuitBreakerRecovery(circuitBreaker, now, CBConfig)
  IN /\ DOMAIN cb2 = Breakers
     /\ \A p \in Breakers :
          IF circuitBreaker[p].state = "OPEN"
             /\ now - circuitBreaker[p].last_failure_time > RecoveryTimeout
          THEN cb2[p] = [circuitBreaker[p] EXCEPT !.state = "HALF_OPEN", !.success_count = 0]
          ELSE cb2[p] = circuitBreaker[p]

C10_Witness ==
  \E p \in Breakers :
    /\ circuitBreaker[p].state = "HALF_OPEN"
    /\ cbHist[p].via = "sweep"
    /\ \E r \in Breakers : circuitBreaker[r].state = "OPEN"

\* C11: a reported success always leaves the failure count at 0; a HALF_OPEN
\* breaker is closed by a success exactly when it is the third success in a row
\* since the breaker became HALF_OPEN, and then both counts are 0; a success
\* never changes the state of a CLOSED or an OPEN breaker, nor any other breaker.
C11_BreakerSuccessRule ==
  \A p \in Breakers :
    LET b == circuitBreaker[p]
        h == cbHist[p]
        succeeded == updateCircuitBreaker(circuitBreaker, p, TRUE, now, CBConfig)
    IN /\ DOMAIN succeeded = Breakers
       /\ \A r \in Breakers \ {p} : succeeded[r] = circuitBreaker[r]
       /\ succeeded[p].failures = 0
       /\ succeeded[p].last_failure_time = b.last_failure_time
       /\ b.state \in {"CLOSED", "OPEN"} => succeeded[p].state = b.state
       /\ b.state = "HALF_OPEN" =>
            /\ b.success_count = h.succs
            /\ IF h.succs = CloseAfter - 1
               THEN /\ succeeded[p].state = "CLOSED"
                    /\ succeeded[p].success_count = 0
               ELSE /\ succeeded[p].state = "HALF_OPEN"
                    /\ succeeded[p].success_count = h.succs + 1
       /\ h.succs > 0 => b.failures = 0

C11_Witness ==
  \E p, r \in Breakers :
    /\ circuitBreaker[p].state = "CLOSED"
    /\ cbHist[p].via = "sweep"
    /\ cbHist[p].succs = CloseAfter
    /\ circuitBreaker[p].failures = 0 /\ circuitBreaker[p].success_count = 0
    /\ circuitBreaker[r].state = "OPEN"
    /\ cbHist[r].succs > 0

RECURSIVE AdmittedSince(_, _)
AdmittedSince(c, t) ==
  IF t > now THEN 0
  ELSE (IF t >= 1 THEN admittedAt[c][t] ELSE 0) + AdmittedSince(c, t + 1)

\* C12: for each client key a request is admitted exactly when fewer than
\* max_requests of its earlier admitted requests lie within the last
\* time_window; a rejected request is not recorded; a request changes the
\* record of no other client.
C12_RateLimit ==
  \A c \in Clients :
    LET r == rateLimitMiddleware(rateLimiter, c, now, RLConfig)
    IN /\ r.admitted <=> AdmittedSince(c, now - TimeWindow + 1) < MaxRequests
       /\ ~r.admitted => r.rl = rateLimiter
       /\ \A d \in (DOMAIN rateLimiter) \ {c} : d \in DOMAIN r.rl /\ r.rl[d] = rateLimiter[d]

AnyQuery == [name |-> "", capability |-> "", status |-> ""]

\* C13: one cleanup sweep removes exactly the instances whose last_heartbeat is
\* more than heartbeat_timeout old: each is then absent from getService,
\* getAllServices and query by capability, and one service_expired event is
\* emitted for it, the only one ever; every other instance is left as it is.
C13_RegistryExpiry ==
  LET R2 == cleanupExpiredServices(RR, now, RegistryConfig)
  IN /\ \A id \in DOMAIN services :
          IF now - services[id].last_heartbeat > HeartbeatTimeout
          THEN /\ id \notin DOMAIN R2.services
               /\ getService(R2.services, id) = None
               /\ \A x \in getAllServices(R2.services) : x.id # id
               /\ \A cap \in services[id].capabilities :
                    \A x \in query(R2.services, [AnyQuery EXCEPT !.capability = cap]) :
                      x.id # id
               /\ <<"service_expired", id>> \in R2.events.last
               /\ R2.events.expired[id] = 1
          ELSE /\ id \in DOMAIN R2.services
               /\ getService(R2.services, id) = services[id]
               /\ <<"service_expired", id>> \notin R2.events.last
               /\ R2.events.expired[id] = regEvents.expired[id]
     /\ \A id \in ServiceIds :
          /\ regEvents.expired[id] <= 1
          /\ regEvents.expired[id] = 1 => id \notin DOMAIN services

C13_Witness ==
  \E id \in ServiceIds, j \in DOMAIN services :
    /\ <<"service_expired", id>> \in regEvents.last
    /\ regEvents.expired[id] = 1
    /\ id \notin DOMAIN services
    /\ services[j].registered_at = services[j].last_heartbeat
    /\ now - services[j].last_heartbeat = HeartbeatTimeout

SameAddress(a, b) == a.name = b.name /\ a.host = b.host /\ a.port = b.port

\* C14: the registry holds at most one entry per (name, host, port);
\* registering an address that is already present returns a new id, leaves the
\* old id in no answer of getService, getAllServices or query, and emits
\* service_updated, not service_registered.
C14_ReRegistrationSupersedes ==
  /\ \A a, b \in DOMAIN services : SameAddress(services[a], services[b]) => a = b
  /\ \A service \in ServiceInputs : \A old \in DOMAIN services :
       SameAddress(services[old], service) =>
         LET r == register(RR, service, now)
         IN /\ r.ret # old
            /\ old \notin DOMAIN r.services
            /\ getService(r.services, old) = None
            /\ \A x \in getAllServices(r.services) \cup query(r.services, AnyQuery) :
                 x.id # old
            /\ r.events.last = {<<"service_updated", r.ret>>}

\* C15: for every task, assigned_agent is set exactly when the status is
\* ASSIGNED or RUNNING.
C15_AssignedAgentIff ==
  \A i \in Created :
    tasks[i].assigned_agent # NoAgent <=> tasks[i].status \in {"assigned", "running"}

\* C16: every task that is PENDING, ASSIGNED or RUNNING has retry_count <=
\* max_retries, for every max_retries including 0; retry_count is the number
\* of failTask calls that found the task, those of the timeout sweep included.
C16_RetryCountBounded ==
  \A i \in Created :
    /\ tasks[i].retry_count = failCalls[i]
    /\ tasks[i].status \in {"pending", "assigned", "running"} =>
         tasks[i].retry_count <= tasks[i].max_retries

C16_Witness ==
  \E i, j \in Created :
    /\ tasks[i].status = "pending" /\ tasks[i].error = "Task timeout"
    /\ tasks[i].retry_count = tasks[i].max_retries - 1 /\ tasks[i].retry_count > 0
    /\ tasks[j].status = "running" /\ tasks[j].max_retries = 0

\* C17: cancelTask on a pending or processing task removes it from there, makes
\* it CANCELLED with completed_at the current time and puts it in the
\* completed store; on any other id it changes nothing.
C17_CancelTask ==
  \A id \in TaskIds :
    LET q2 == cancelTask(TQ, id, now)
    IN IF id \in Pending \cup Processing
       THEN /\ id \notin SeqToSet(q2.queue) /\ id \notin SeqToSet(q2.processing)
            /\ id \in q2.completed
            /\ q2.tasks[id].status = "cancelled"
            /\ q2.tasks[id].completed_at = now
       ELSE q2 = TQ

\* C18: after cleanup the completed store holds no task that became COMPLETED,
\* FAILED or CANCELLED before the cutoff now - task_retention_days; cleanup
\* removes no completed-store task that is not older than the cutoff and
\* leaves the pending collection, the processing set and the tasks unchanged.
C18_Retention ==
  LET q2 == cleanup(TQ, now, config)
      cutoffDate == now - config.task_retention_days
  IN /\ \A i \in q2.completed : ~(terminalAt[i] < cutoffDate)
     /\ \A i \in completed : terminalAt[i] >= cutoffDate => i \in q2.completed
     /\ q2.completed \subseteq completed
     /\ q2.queue = queue /\ q2.processing = processing /\ q2.tasks = tasks

NotUnhealthy(a) == ~(a \in DOMAIN agentStatus /\ agentStatus[a] = FALSE)

\* C19: selectBestAgent returns none exactly when no candidate has a status
\* other than false; otherwise it returns the first, in the order of the input
\* list, of the candidates whose status is not false and whose recorded load
\* (0 if unrecorded) is the lowest among them.
C19_SelectBestAgent ==
  \A candidateAgents \in CandidateLists :
    LET ret == selectBestAgent(candidateAgents, agentLoads, agentStatus)
        eligible == {i \in 1..Len(candidateAgents) : NotUnhealthy(candidateAgents[i])}
    IN /\ ret = NoAgent <=> eligible = {}
       /\ ret # NoAgent =>
            \E i \in eligible :
              /\ candidateAgents[i] = ret
              /\ \A j \in eligible :
                   \/ Load(agentLoads, candidateAgents[j]) > Load(agentLoads, ret)
                   \/ /\ Load(agentLoads, candidateAgents[j]) = Load(agentLoads, ret)
                      /\ i <= j

C19_Witness ==
  /\ Len(selected.candidateAgents) = 3
  /\ selected.ret = selected.candidateAgents[2]
  /\ selected.ret = selectBestAgent(selected.candidateAgents, agentLoads, agentStatus)
  /\ ~NotUnhealthy(selected.candidateAgents[1])
  /\ Load(agentLoads, selected.candidateAgents[1]) < Load(agentLoads, selected.ret)
  /\ selected.candidateAgents[3] # selected.ret
  /\ Load(agentLoads, selected.candidateAgents[3]) = Load(agentLoads, selected.ret)

RECURSIVE TotalLoad(_)
TotalLoad(as) ==
  IF as = {} THEN 0
  ELSE LET a == CHOOSE x \in as : TRUE
       IN Load(agentLoads, a) + TotalLoad(as \ {a})

\* C20: the load counters count the tasks the scheduler dispatched that are
\* still in the processing set: together they equal the size of the
\* processing set, and every counter is 0 when the processing set is empty,
\* also after the timeout sweep or cancelTask took tasks out of it.
C20_LoadCounterPairing ==
  /\ TotalLoad(DOMAIN agentLoads) = Len(processing)
  /\ processing = <<>> => \A a \in DOMAIN agentLoads : agentLoads[a] = 0

\* C29: routing follows the table.  After any sequence of addRoute and
\* removeRoute calls, routeTask returns only roles the table currently maps the
\* task's type to, and the empty list when the type has no entry, for every
\* subtype; the recorded direct calls returned exactly that.
TableRoles(ty) == IF ty \in DOMAIN routeTable THEN SeqToSet(routeTable[ty]) ELSE {}

C29_RoutingFollowsTable ==
  /\ \A ty \in RouterTypes, st \in Subtypes :
       LET r == routeTask(routeTable, [type |-> ty, subtype |-> st])
       IN /\ SeqToSet(r) \subseteq TableRoles(ty)
          /\ ty \notin DOMAIN routeTable => r = <<>>
  /\ routed.ret = routeTask(routeTable, routed.task)
       => SeqToSet(routed.ret) \subseteq TableRoles(routed.task.type)

\* C21: no silent drop.  Every task that scheduleNextTask obtains from dequeue
\* has, when the call finishes, either been started (RUNNING, the selected
\* agent's load one higher, no other load changed) or been passed to failTask
\* once with the error that names the cause, which consumed one retry attempt
\* and left the loads alone; and the scheduler leaves no task ASSIGNED.
C21_NoSilentDrop ==
  /\ \A i \in 1..Len(tasks) : tasks[i].status # "assigned"
  /\ LET d == dequeue(TQ, NoAgent, now, config)
         S2 == scheduleNextTask(SS, routeTable, agentStatus, now, config)
         capableAgents == routeTask(routeTable, tasks[d.ret])
         selectedAgent == selectBestAgent(capableAgents, agentLoads, agentStatus)
         failedWith(error) ==
           /\ S2.fc[d.ret] = failCalls[d.ret] + 1
           /\ S2.q.tasks[d.ret].error = error
           /\ S2.q.tasks[d.ret].retry_count = tasks[d.ret].retry_count + 1
           /\ S2.q.tasks[d.ret].status \in {"pending", "failed"}
           /\ S2.loads = agentLoads
     IN d.ret # None =>
          IF Len(capableAgents) = 0 THEN failedWith("No capable agents available")
          ELSE IF selectedAgent = NoAgent THEN failedWith("No healthy agents available")
          ELSE /\ S2.q.tasks[d.ret].status = "running"
               /\ S2.fc = failCalls
               /\ Load(S2.loads, selectedAgent) = Load(agentLoads, selectedAgent) + 1
               /\ \A a \in (DOMAIN S2.loads) \ {selectedAgent} :
                    a \in DOMAIN agentLoads /\ S2.loads[a] = agentLoads[a]

\* one task was failed for want of a healthy agent and waits for its retry,
\* another was failed for want of a route, and a third call started a task
C21_Witness ==
  /\ \E i \in 1..Len(tasks) :
       /\ tasks[i].error = "No healthy agents available"
       /\ tasks[i].retry_count >= 1
       /\ failCalls[i] >= 1
  /\ \E j \in 1..Len(tasks) :
       /\ tasks[j].status = "running"
       /\ Load(agentLoads, "collector") + Load(agentLoads, "analyzer") >= 1

\* what callers hand to createTask: priority 0, max_retries 0 and timeout 0
\* stand for absent fields
TaskDataInputs ==
  [type : {"collect_news", "detect_risks"}, subtype : {""},
   priority : {0} \cup (LOW..CRITICAL), tags : SUBSET {"urgent", "low-priority"},
   max_retries : {0}, timeout : {0, 1, ShortTimeout}]

\* the derivation the priority manager is described by
DerivedPriority(taskData) ==
  LET sum == (IF taskData.type = "detect_risks" THEN HIGH ELSE NORMAL)
             + (IF "urgent" \in taskData.tags THEN 1 ELSE 0)
             - (IF "low-priority" \in taskData.tags THEN 1 ELSE 0)
             + (IF taskData.timeout # 0 /\ taskData.timeout < ShortTimeout THEN 1 ELSE 0)
  IN IF sum > CRITICAL THEN CRITICAL ELSE IF sum < LOW THEN LOW ELSE sum

\* C22: priority assignment.  createTask with an explicit priority p enqueues
\* a task of priority p; without one the priority is the derived one (HIGH for
\* risk detection, NORMAL otherwise, +1 for 'urgent', -1 for 'low-priority',
\* +1 for a short timeout), which lies in LOW..CRITICAL.
C22_PriorityAssignment ==
  \A taskData \in TaskDataInputs :
    LET r == createTask(TQ, taskData, now, config)
        priority == r.q.tasks[r.ret].priority
    IN /\ taskData.priority # 0 => priority = taskData.priority
       /\ taskData.priority = 0 => /\ priority = DerivedPriority(taskData)
                                   /\ priority \in LOW..CRITICAL

\* a message that has every required field, a known type and a timestamp
\* within the replay window of the receipt time
WellFormed(message, at) ==
  /\ message.from # "" /\ message.to # "" /\ message.type # "" /\ message.action # ""
  /\ message.timestamp # 0 /\ message.message_id # ""
  /\ message.type \in {"request", "response", "event"}
  /\ Abs(at - message.timestamp) <= ReplayWindow

C24_ReplayWindowEveryPath ==
  /\ \A i \in 1..Len(handled.dispatched) :
       /\ Abs(handled.at - handled.dispatched[i].timestamp) <= ReplayWindow
       /\ handled.dispatched[i].type \in {"request", "response", "event"}
  /\ (handled.route = "batch" /\ handled.size > BatchLimit) =>
       /\ handled.res.status = 400
       /\ handled.dispatched = <<>>

\* the peers a finished or running broadcast has called sendBatchToAgent for
Called ==
  {broadcast.results[i].targetAgent : i \in 1..Len(broadcast.results)}
  \cup (IF broadcast.phase = "awaiting" THEN {Head(broadcast.targets)} ELSE {})

\* C25: broadcastMessage attempts delivery to every peer that was in the
\* connected-agents table when it was called, except the sender itself, and
\* never to itself; a failure for one peer (unknown address, open breaker,
\* failed fetch) neither aborts the broadcast nor keeps any other peer from
\* being attempted, and the call does not fail.
C25_BroadcastReachesEveryPeer ==
  /\ broadcast.phase # "failed"
  /\ SelfName \notin Called
  /\ Called \subseteq broadcast.keys
  /\ broadcast.phase = "done" =>
       /\ Called = broadcast.keys \ {SelfName}
       /\ Len(broadcast.results) = Cardinality(Called)
  /\ broadcast.phase = "awaiting" =>
       Called \cup SeqToSet(broadcast.targets) = broadcast.keys \ {SelfName}

\* a finished broadcast from a table that held the sender itself: the first
\* peer failed, the peer after it was still attempted and succeeded
C25_Witness ==
  /\ broadcast.phase = "done"
  /\ SelfName \in broadcast.keys
  /\ Len(broadcast.results) >= 2
  /\ ~broadcast.results[1].success
  /\ broadcast.results[2].success

\* C26: heartbeat(id, status?) on a registered id sets last_heartbeat to now
\* and emits service_status_changed if and only if the instance's status after
\* the call differs from its status before; without a status, or with the
\* status the instance has, it emits nothing; on an unknown id it returns false,
\* changes no instance and emits nothing.
C26_Heartbeat ==
  \A id \in ServiceIds, status \in {"none", "healthy", "unhealthy"} :
    LET R2 == heartbeat(RR, id, status, now)
    IN IF id \in DOMAIN services
       THEN /\ R2.ret = TRUE
            /\ DOMAIN R2.services = DOMAIN services
            /\ \A x \in (DOMAIN services) \ {id} : R2.services[x] = services[x]
            /\ R2.services[id].last_heartbeat = now
            /\ R2.services[id].status = IF status = "none" THEN services[id].status ELSE status
            /\ R2.events.last \subseteq {<<"service_status_changed", id>>}
            /\ <<"service_status_changed", id>> \in R2.events.last
                 <=> R2.services[id].status # services[id].status
            /\ (status = "none" \/ status = services[id].status) => R2.events.last = {}
       ELSE /\ R2.ret = FALSE
            /\ R2.services = services
            /\ R2.events.last = {}

\* a heartbeat has just turned a healthy instance unhealthy, at a later time
\* than its registration, and emitted the event
C26_Witness ==
  \E id \in DOMAIN services :
    /\ regEvents.last = {<<"service_status_changed", id>>}
    /\ services[id].status = "unhealthy"
    /\ services[id].last_heartbeat = now
    /\ services[id].registered_at < now

\* C27: the active health check feeds liveness.  Every settled probe of an
\* instance with a health_check_url has refreshed its last_heartbeat, so an
\* instance still registered was heard of no earlier than its last probe, and
\* the expiry sweep removes no instance whose last probe settled within
\* heartbeat_timeout.
C27_HealthCheckFeedsLiveness ==
  /\ \A id \in DOMAIN services :
       regEvents.probed[id] >= services[id].registered_at
         => services[id].last_heartbeat >= regEvents.probed[id]
  /\ \A id \in ServiceIds :
       (<<"service_expired", id>> \in regEvents.last /\ regEvents.probed[id] # 0)
         => now - regEvents.probed[id] > HeartbeatTimeout

\* C28: the discovery cache has a short TTL.  A discover call is served from
\* the cache only within cacheTimeout of the time the cached result was
\* stored, returns no instance later than cacheTimeout after the registry
\* dropped it, whatever heartbeats other instances received.
C28_DiscoveryCacheTtl ==
  /\ discovered.fromCache => discovered.at - discovered.storedAt < CacheTimeout
  /\ \A i \in 1..Len(discovered.ret) :
       discovered.ret[i].dropped => discovered.at - discovered.ret[i].since <= CacheTimeout

\* the edges of the task state machine; task is the record after the change
TaskEdge(from, to, task) ==
  \/ from = "pending" /\ to = "assigned"
  \/ from = "assigned" /\ to = "running"
  \/ from = "running" /\ to = "completed"
  \/ from = "running" /\ to = "failed"
  \/ from = "running" /\ to = "pending" /\ task.retry_count < task.max_retries
  \/ from \in {"pending", "assigned", "running"} /\ to = "cancelled"

\* C30: task state machine.  Every status change a queue operation makes to a
\* task is one of the edges pending->assigned, assigned->running,
\* running->completed, running->failed, running->pending (retry_count below
\* max_retries) and pending/assigned/running->cancelled, and started_at, once
\* recorded, is not recorded again in the same attempt.
C30_TaskStateMachine ==
  [][\A i \in 1..Len(tasks) :
       i <= Len(tasks') =>
         /\ tasks'[i].status # tasks[i].status
              => TaskEdge(tasks[i].status, tasks'[i].status, tasks'[i])
         /\ (tasks[i].started_at # Undef /\ tasks'[i].started_at # Undef
               /\ tasks'[i].retry_count = tasks[i].retry_count)
              => tasks'[i].started_at = tasks[i].started_at]_vars

\* C31: an inbound rejection does not feed the breaker.  When handleMessage
\* serves a message while the sender's breaker is OPEN and its recovery window
\* has not elapsed, the breaker's state, failure count and last_failure_time
\* stay as they were.
C31_RejectionDoesNotFeedBreaker ==
  [][HandleMessage =>
       \A a \in DOMAIN circuitBreaker :
         isCircuitBreakerOpen(circuitBreaker, a, now, CBConfig).open
           => circuitBreaker'[a] = circuitBreaker[a]]_vars

\* the part of C38 about CLOSED breakers
C38_ClosedBelowThreshold ==
  \A a \in DOMAIN circuitBreaker :
    circuitBreaker[a].state = "CLOSED"
      => circuitBreaker[a].failures < CBConfig.failure_threshold

\* C38: a failed probe re-opens.  A step whose last report for a peer is a
\* failure, made while the peer's breaker is HALF_OPEN, leaves the breaker
\* OPEN with last_failure_time refreshed; and a CLOSED breaker always has
\* fewer failures than failure_threshold.
C38_FailedProbeReopens ==
  /\ []C38_ClosedBelowThreshold
  /\ [][\A a \in DOMAIN circuitBreaker \cap DOMAIN circuitBreaker' :
          (circuitBreaker[a].state = "HALF_OPEN" /\ cbHist'[a].fails = cbHist[a].fails + 1)
            => /\ circuitBreaker'[a].state = "OPEN"
               /\ circuitBreaker'[a].last_failure_time = now]_vars

\* C39: discover never fails.  No discover call throws, whatever was cached
\* for its filter before.
C39_DiscoverNeverFails == ~discovered.thrown

\* how many of the three collections hold the task
Holders(i) ==
  (IF IndexOf(queue, i) # 0 THEN 1 ELSE 0) + (IF i \in SeqToSet(processing) THEN 1 ELSE 0)
    + (IF i \in completed THEN 1 ELSE 0)

\* C34: partition invariant.  Every created task is in at most one of the
\* pending queue, the processing set and the completed store, and in none only
\* after cleanup purged it from the completed store; the status of a task is
\* the one of its collection; and the three counts of getQueueStatus add up
\* to the number of tasks not purged.
C34_Partition ==
  /\ \A i \in 1..Len(tasks) :
       /\ Holders(i) <= 1
       /\ Holders(i) = 0 => tasks[i].status \in Terminal /\ tasks[i].completed_at # Undef
       /\ IndexOf(queue, i) # 0 => tasks[i].status = "pending"
       /\ i \in SeqToSet(processing) => tasks[i].status \in {"assigned", "running"}
       /\ i \in completed => tasks[i].status \in Terminal
  /\ SeqToSet(queue) \cup SeqToSet(processing) \cup completed \subseteq 1..Len(tasks)
  /\ LET st == getQueueStatus(TQ, config)
     IN st.queued + st.processing + st.completed
          = Cardinality({i \in 1..Len(tasks) : Holders(i) = 1})

C34_Witness ==
  /\ \E i \in 1..Len(tasks) : Holders(i) = 0
  /\ \E i \in SeqToSet(processing) : tasks[i].status = "running" /\ tasks[i].retry_count > 0

\* C35: terminal states are absorbing.  No step changes the status, result,
\* error or retry_count of a task that is COMPLETED, FAILED or CANCELLED, or
\* puts it into the pending queue or the processing set.
C35_TerminalAbsorbing ==
  [][\A i \in 1..Len(tasks) :
       tasks[i].status \in Terminal
         => /\ i <= Len(tasks')
            /\ tasks'[i].status = tasks[i].status
            /\ tasks'[i].result = tasks[i].result
            /\ tasks'[i].error = tasks[i].error
            /\ tasks'[i].retry_count = tasks[i].retry_count
            /\ IndexOf(queue', i) = 0
            /\ i \notin SeqToSet(processing')]_vars

\* a task completed, and later another one was dequeued, started, retried
\* and failed for good by the timeout sweep
C35_Witness ==
  \E i, j \in 1..Len(tasks) :
    /\ tasks[i].status = "completed"
    /\ tasks[j].status = "failed" /\ tasks[j].error = "Task timeout"
    /\ terminalAt[i] # Undef /\ terminalAt[j] # Undef /\ terminalAt[j] > terminalAt[i]

\* C37: a late result belongs to its own attempt.  A task that is pending
\* with an execution still in flight was re-queued by the timeout sweep while
\* running; when that execution reports, its completeTask or the failTask of
\* its catch block returns normally, so that no error escapes.
C37_LateResultOwnAttempt ==
  [][\A id \in 1..Len(tasks), a \in Agents :
       (/\ tasks[id].status = "pending"
        /\ executions[<<id, a>>] > 0
        /\ executions'[<<id, a>>] = executions[<<id, a>>] - 1)
         => ~(/\ completeTask(TQ, id, "result", now).thrown
              /\ failTask(TQ, id, "Execution failed", now).thrown)]_vars

C33_HandlerFailuresContained ==
  \A messages \in PostedBatches, requestId \in RequestIds :
    (/\ validateBatchMessages(messages, requestId).next
     /\ \A i \in 1..Len(messages) :
          ~isCircuitBreakerOpen(circuitBreaker, messages[i].from, now, CBConfig).open)
      => postMessagesBatch(CC, messages, requestId, now, CBConfig).dispatched = messages

\* C40: no resurrection by a late probe.  When the fetch of a health probe
\* settles after the instance it was started for was unregistered or expired,
\* the registry's instances stay as they are and no status_changed event is
\* emitted.
C40_NoResurrection ==
  [][\A p \in probes :
       (p \notin probes' /\ p.how \in {"unregistered", "expired"})
         => /\ services' = services
            /\ \A id \in ServiceIds : <<"service_status_changed", id>> \notin regEvents'.last]_vars

\* C32: sweeps are not re-entered.  Of each of the scheduler's periodic
\* activities at most one invocation has started and not yet returned.
C32_NoReentry == \A a \in Activities : timers.active[a] <= 1

\* a scheduling tick is suspended inside its loop with a slot still to fill,
\* and later a timeout sweep is suspended with a task still to fail
C32_Witness ==
  /\ Len(timers.conts) = 1
  /\ timers.active[timers.conts[1].act] = 1
  /\ \/ timers.conts[1].act = "schedule" /\ timers.conts[1].left > 0
     \/ timers.conts[1].act = "timeout" /\ timers.conts[1].ids # <<>>

====
